---------------------------- MODULE Spec2Model ----------------------------
(***************************************************************************)
(* Model of the tachograph card client (src-tauri/src): the registry of    *)
(* live card sessions (TASK_POOL), the Registration Decision, the scan     *)
(* passes of the Reader Monitor and of manual_sync_cards, the Card Session *)
(* (ManagedCard) and the per-card bridge task of ensure_connection.        *)
(***************************************************************************)
EXTENDS Naturals, Integers, Sequences, FiniteSets, TLC

(***************************************************************************)
(* Bounds of the model.                                                    *)
(***************************************************************************)
\* Number of task identities available to spawned bridge tasks.
MaxTasks == 4

(***************************************************************************)
(* The world the program runs in.                                          *)
(***************************************************************************)
\* Option::None of ProcessingCard.reader_name / ProcessingCard.atr.
None == "<none>"
\* Empty slot of a reader.
NoCard == "<nocard>"

\* An Option or a OnceCell: Some(b) when it holds b, Absent when empty.
Some(b) == <<b>>
Absent == <<>>

\* The readers that can be attached: two card readers, a reader of a remote
\* desktop session and a reader whose name is not valid UTF-8.
ReaderSet == {"r1", "r2", "rv", "rx"}

\* A byte of a reader name that is no UTF-8 text, and the character
\* to_string_lossy puts in its place.
BadByte == "<ff>"
Replacement == "<fffd>"

\* rs.name(): the name the hardware layer reports for each reader (a CStr).
ReaderName(r) ==
    CASE r = "r1" -> <<"A", "C", "S">>
      [] r = "r2" -> <<"O", "M", "N", "I">>
      [] r = "rv" -> <<"R", "e", "M", "O", "T", "E", "1">>
      [] OTHER    -> <<"A", "C", BadByte, "S">>

\* reader_name.to_str(): whether the name converts (unwrap panics if not).
to_str_ok(name) == \A i \in 1..Len(name) : name[i] # BadByte

to_string_lossy(name) ==
    [i \in 1..Len(name) |-> IF name[i] = BadByte THEN Replacement ELSE name[i]]

UpperCase == <<"A", "C", "E", "I", "M", "N", "O", "R", "S", "T">>
LowerCase == <<"a", "c", "e", "i", "m", "n", "o", "r", "s", "t">>

\* str::to_lowercase over the letters reader names are made of.
to_lowercase(name) ==
    [i \in 1..Len(name) |->
        IF \E k \in 1..Len(UpperCase) : UpperCase[k] = name[i]
        THEN LowerCase[CHOOSE k \in 1..Len(UpperCase) : UpperCase[k] = name[i]]
        ELSE name[i]]

\* str::contains(pattern)
contains(text, pattern) ==
    \E k \in 0..(Len(text) - Len(pattern)) :
        \A i \in 1..Len(pattern) : text[k + i] = pattern[i]

\* Variant: the name is compared as it was reported, without lowercasing.
is_virtual_reader_case_sensitive(reader_name) ==
    LET reader_name_lower == to_string_lossy(reader_name)
    IN  \/ contains(reader_name_lower,
                    <<"m", "i", "c", "r", "o", "s", "o", "f", "t">>)
        \/ contains(reader_name_lower, <<"v", "i", "r", "t", "u", "a", "l">>)
        \/ contains(reader_name_lower, <<"r", "e", "m", "o", "t", "e">>)

is_virtual_reader(reader_name) ==
    LET reader_name_lower == to_lowercase(to_string_lossy(reader_name))
    IN  \/ contains(reader_name_lower,
                    <<"m", "i", "c", "r", "o", "s", "o", "f", "t">>)
        \/ contains(reader_name_lower, <<"v", "i", "r", "t", "u", "a", "l">>)
        \/ contains(reader_name_lower, <<"r", "e", "m", "o", "t", "e">>)

\* Physical cards; a card is identified by its ICCID.
Cards == {"k1", "k2"}
\* ATRs (hex) a card may answer with.
Atrs == {"3b01", "3b02"}

\* Card numbers a configuration may hold, with the ICCID each is entered for.
CardNumbers == {"n1", "n2"}
CfgIccid(n) == IF n = "n1" THEN "k1" ELSE "k2"

\* Server settings update_server may store: host string split at ':' and ident.
ValidPorts == {"1883"}
ServerConfigs ==
    { [host |-> <<"broker", "1883">>, ident |-> "app"],
      [host |-> <<"broker">>, ident |-> ""],
      [host |-> <<"broker", "1883">>, ident |-> "n1"] }

Procs == {"monitor", "manual"}
TaskIds == 1..MaxTasks

VARIABLES
    TASK_POOL,   \* Vec<ProcessingCard>: sequence of registry entries
    running,     \* task ids of spawned bridge tasks that were not aborted
    readers,     \* hardware: the attached readers, as list_readers gives them
    cardAtr,     \* hardware: the ATR each card answers with
    slot,        \* hardware: card present in each reader
    cards,       \* CACHE.cards: card numbers configured (number -> CfgIccid)
    server,      \* CACHE.server / CACHE.ident
    pc,          \* position of each scan pass
    idx,         \* index in reader_states of the reader being processed
    snap,        \* reader_states of the pass: ATR reported per reader
    number,      \* card_number looked up by the pass for the current reader
    lastDec,     \* the latest Registration Decision: its result, whether it
                 \* removed an entry, whether it is the watched pair's second
    watch,       \* per pass owner and reader: the ATR for which the owner's
                 \* latest decision on the reader was Create, "" otherwise
                 \* (None throughout when consecutive decisions are not
                 \* followed)
    synced,      \* per pass: the readers for which the pass has emitted
                 \* "global-cards-sync" since it started (None throughout
                 \* when the events are not followed)
    mpc,         \* position of sc_monitor in its loops (None throughout when
                 \* only its scan passes are followed)
    ctx,         \* sc_monitor's hardware context: None, or "ctx" once
                 \* established
    msleep,      \* seconds sc_monitor's sleep still has to run
    current,     \* per reader: the current_state of sc_monitor's reader
                 \* state, as the ATR it was last read with (None
                 \* throughout when sc_monitor is not followed)
    fetches      \* per reader: how many times get_iccid has sent its
                 \* commands to the card in the reader since the card was
                 \* inserted (0 throughout when only the passes are
                 \* followed)

\* The ATR Parser applied to one text.
VARIABLES
    atr_text,    \* the argument `atr`: a text, as the sequence of its characters
    protocol     \* what parse_atr_and_get_protocol returned for it, None
                 \* before the call

parserVars == <<atr_text, protocol>>

\* The watched-reader list of sc_monitor.
VARIABLES
    reader_states \* Vec<ReaderState>: per entry the reader's name and the
                  \* flags of its event_state and current_state (empty
                  \* throughout when the list is not followed)

watchVars == <<reader_states>>

\* ManagedCard::get_iccid reading the identifier from one response.
VARIABLES
    rapdu,        \* the bytes the card returned to READ BINARY, data and
                  \* status (empty throughout when the reading is not followed)
    iccid_cell    \* the OnceCell `iccid` of the session: Absent, or Some of
                  \* the text stored

iccidVars == <<rapdu, iccid_cell>>

monVars == <<mpc, ctx, msleep, current>>

regVars == <<TASK_POOL, running, readers, cardAtr, slot, cards, server, pc,
             idx, snap, number, lastDec, watch, synced, monVars, fetches,
             parserVars, watchVars, iccidVars>>

\* The Card Session (ManagedCard) of one card and its users.
VARIABLES
    cardLock,    \* owner of the session's Mutex<Card> (inner), None when free
    handle,      \* version of the Card inside the mutex: each replacement
                 \* (recreate) and each reset (reconnect) gives a new one
    cpc,         \* position of each user inside the session's methods
    call         \* each user's current or last call: operation, outcomes of
                 \* its device calls, returned value

cardVars == <<cardLock, handle, cpc, call>>

\* The bridge task ensure_connection spawns for the card.
VARIABLES
    bpc,          \* position of the task
    is_online,    \* its flags
    was_online,
    auth_process,
    frame,        \* the notification being handled (the last one polled)
    authAt,       \* auth_process when that notification was polled
    replies,      \* messages published since that notification was polled
    emits,        \* statuses emitted since that notification was polled
    backoff       \* seconds the sleep after a failed poll still has to run

bridgeVars == <<bpc, is_online, was_online, auth_process, frame, authAt,
                replies, emits, backoff>>

sessVars == <<cardVars, bridgeVars, parserVars, watchVars, iccidVars>>

vars == <<regVars, cardVars, bridgeVars>>

\* Holders of a clone of the ManagedCard: the bridge task and one more.
Users == {"bridge", "other"}

\* A call record before any call.
NoCall == [op |-> None, apdu |-> None, hexOk |-> TRUE, tx1 |-> None,
           rc |-> None, tx2 |-> None, reset |-> None, ret |-> None]
NoFrame == [kind |-> None, topicOk |-> TRUE, payload |-> ""]

\* The session untouched and the bridge task at its first poll.
SessIdle ==
    /\ cardLock = None
    /\ handle = 0
    /\ cpc = [u \in Users |-> "idle"]
    /\ call = [u \in Users |-> NoCall]
    /\ bpc = "poll"
    /\ is_online = FALSE
    /\ was_online = FALSE
    /\ auth_process = FALSE
    /\ frame = NoFrame
    /\ authAt = FALSE
    /\ replies = <<>>
    /\ emits = <<>>
    /\ backoff = 0

(***************************************************************************)
(* Helpers on the registry.                                                *)
(***************************************************************************)
RemoveAt(s, i) == SubSeq(s, 1, i - 1) \o SubSeq(s, i + 1, Len(s))

\* Vec::iter().position(pred), given the indices satisfying pred: the first
\* of them, 0 if there is none.
Position(found) ==
    IF found # {}
    THEN CHOOSE i \in found : \A j \in found : i <= j
    ELSE 0

ClientIds(pool) == {pool[i].client_id : i \in 1..Len(pool)}
PoolTasks(pool) == {pool[i].task : i \in 1..Len(pool)}

\* pool.iter().any(|c| c.reader_name == Some(reader) && c.atr == Some(atr))
HasPair(pool, reader, atr) ==
    \E i \in 1..Len(pool) : pool[i].reader_name = reader /\ pool[i].atr = atr

(***************************************************************************)
(* config.rs                                                               *)
(***************************************************************************)
\* get_from_cache(CacheSection::Cards, iccid): some configured number whose
\* iccid matches (HashMap iteration order), "" when none.
LookupNumbers(cfg, iccid) ==
    IF \E n \in cfg : CfgIccid(n) = iccid
    THEN {n \in cfg : CfgIccid(n) = iccid}
    ELSE {""}

\* split_host_to_parts: exactly two parts and a port that parses.
split_host_ok(host) == Len(host) = 2 /\ host[2] \in ValidPorts

(***************************************************************************)
(* smart_card.rs: should_register_new_card                                 *)
(***************************************************************************)
\* Variant: an entry of the reader counts as the pair whatever its ATR.
should_register_reader_only(pool, run, reader_name, atr) ==
    IF /\ reader_name # "" /\ atr # ""
       /\ ~\E i \in 1..Len(pool) : pool[i].reader_name = reader_name
    THEN [result |-> "Create", pool |-> pool, run |-> run]
    ELSE IF atr = ""
    THEN LET Stale(c) == c.reader_name = reader_name
                         /\ c.atr # None /\ c.atr # ""
             index == Position({i \in 1..Len(pool) : Stale(pool[i])})
         IN  IF index # 0
             THEN [result |-> "Delete",
                   pool |-> RemoveAt(pool, index),
                   run |-> run \ {pool[index].task}]
             ELSE [result |-> "Delete", pool |-> pool, run |-> run]
    ELSE [result |-> "Ignore", pool |-> pool, run |-> run]

\* Variant: the stale entry is removed without aborting its task.
should_register_no_abort(pool, run, reader_name, atr) ==
    IF reader_name # "" /\ atr # "" /\ ~HasPair(pool, reader_name, atr)
    THEN [result |-> "Create", pool |-> pool, run |-> run]
    ELSE IF atr = ""
    THEN LET Stale(c) == c.reader_name = reader_name
                         /\ c.atr # None /\ c.atr # ""
             index == Position({i \in 1..Len(pool) : Stale(pool[i])})
         IN  IF index # 0
             THEN [result |-> "Delete",
                   pool |-> RemoveAt(pool, index),
                   run |-> run]
             ELSE [result |-> "Delete", pool |-> pool, run |-> run]
    ELSE [result |-> "Ignore", pool |-> pool, run |-> run]

\* Result of the decision on a registry `pool` with live tasks `run`:
\* the returned CardProcessingResult, the registry and the live tasks after.
should_register_new_card(pool, run, reader_name, atr) ==
    IF reader_name # "" /\ atr # "" /\ ~HasPair(pool, reader_name, atr)
    THEN [result |-> "Create", pool |-> pool, run |-> run]
    ELSE IF atr = ""
    THEN LET Stale(c) == c.reader_name = reader_name
                         /\ c.atr # None /\ c.atr # ""
             index == Position({i \in 1..Len(pool) : Stale(pool[i])})
         IN  IF index # 0
             THEN [result |-> "Delete",
                   pool |-> RemoveAt(pool, index),
                   run |-> run \ {pool[index].task}]
             ELSE [result |-> "Delete", pool |-> pool, run |-> run]
    ELSE [result |-> "Ignore", pool |-> pool, run |-> run]

(***************************************************************************)
(* mqtt.rs: ensure_connection, remove_connections, remove_connections_all  *)
(***************************************************************************)
NewTask(run, pool) ==
    CHOOSE t \in TaskIds : t \notin (run \cup PoolTasks(pool))
           /\ \A u \in TaskIds : u \notin (run \cup PoolTasks(pool)) => t <= u

\* Variant: no look-up of the client id among the registry entries.
ensure_connection_pushes_nocheck(pool, srv, client_id) ==
    /\ client_id # ""
    /\ split_host_ok(srv.host)

\* Variant: no early return on an empty client id.
ensure_connection_pushes_any_id(pool, srv, client_id) ==
    /\ client_id \notin ClientIds(pool)
    /\ split_host_ok(srv.host)

\* Whether ensure_connection reaches task_pool.push.
ensure_connection_pushes(pool, srv, client_id) ==
    /\ client_id # ""
    /\ client_id \notin ClientIds(pool)
    /\ split_host_ok(srv.host)

\* Variant: the entry is pushed without its ATR.
ensure_connection_no_atr(pool, run, srv, reader_name, client_id, atr) ==
    IF ensure_connection_pushes(pool, srv, client_id)
    THEN LET t == NewTask(run, pool)
         IN  [pool |-> Append(pool, [client_id |-> client_id,
                                     reader_name |-> reader_name,
                                     atr |-> None, task |-> t]),
              run |-> run \cup {t}]
    ELSE [pool |-> pool, run |-> run]

ensure_connection(pool, run, srv, reader_name, client_id, atr) ==
    IF ensure_connection_pushes(pool, srv, client_id)
    THEN LET t == NewTask(run, pool)
         IN  [pool |-> Append(pool, [client_id |-> client_id,
                                     reader_name |-> reader_name,
                                     atr |-> atr, task |-> t]),
              run |-> run \cup {t}]
    ELSE [pool |-> pool, run |-> run]

\* app_connect.rs: app_connection
app_connection(pool, run, srv) ==
    IF /\ split_host_ok(srv.host)
       /\ srv.ident # ""
       /\ srv.ident \notin ClientIds(pool)
    THEN LET t == NewTask(run, pool)
         IN  [pool |-> Append(pool, [client_id |-> srv.ident,
                                     reader_name |-> None,
                                     atr |-> None, task |-> t]),
              run |-> run \cup {t}]
    ELSE [pool |-> pool, run |-> run]

\* Variant: the entries are removed and their tasks are left running.
remove_connections_no_abort(pool, run, client_ids) ==
    LET Kept(c) == \A k \in 1..Len(client_ids) : c.client_id # client_ids[k]
    IN  [pool |-> SelectSeq(pool, Kept), run |-> run]

RECURSIVE remove_connections(_, _, _)
remove_connections(pool, run, client_ids) ==
    IF client_ids = <<>>
    THEN [pool |-> pool, run |-> run]
    ELSE LET Is(c) == c.client_id = Head(client_ids)
             index == Position({i \in 1..Len(pool) : Is(pool[i])})
         IN  IF index # 0
             THEN remove_connections(RemoveAt(pool, index),
                                     run \ {pool[index].task},
                                     Tail(client_ids))
             ELSE remove_connections(pool, run, Tail(client_ids))

\* Variant: the registry is cleared and the tasks are left running.
remove_connections_all_no_abort(pool, run) ==
    [pool |-> <<>>, run |-> run]

\* remove_connections_all: drain(..) with abort of every task.
remove_connections_all(pool, run) ==
    [pool |-> <<>>, run |-> run \ PoolTasks(pool)]


(***************************************************************************)
(* Initial state: empty registry, no card inserted, both passes idle.      *)
(***************************************************************************)
NoDec == [result |-> None, removed |-> FALSE, second |-> FALSE]
NoWatch == [p \in Procs |-> [r \in ReaderSet |-> ""]]
WatchOff == [p \in Procs |-> [r \in ReaderSet |-> None]]
NoSnap == [r \in ReaderSet |-> ""]
NoSync == [p \in Procs |-> {}]
\* ReaderState::new(name, State::UNAWARE) for every reader.
Unaware == [r \in ReaderSet |-> "unaware"]
CurrentOff == [r \in ReaderSet |-> None]

\* Only the scan passes are followed: sc_monitor's loops around its passes
\* and the events of the passes are left out.
\* No text is given to the ATR Parser.
ParserOff ==
    /\ atr_text = <<>>
    /\ protocol = None

PassesOnly ==
    /\ synced = NoSync
    /\ fetches = [r \in ReaderSet |-> 0]
    /\ mpc = None
    /\ ctx = None
    /\ msleep = 0
    /\ current = CurrentOff
    /\ reader_states = <<>>
    /\ rapdu = <<>>
    /\ iccid_cell = Absent

InitCommon ==
    /\ SessIdle
    /\ TASK_POOL = <<>>
    /\ running = {}
    /\ slot = [r \in ReaderSet |-> NoCard]
    /\ cards = {"n1", "n2"}
    /\ server = [host |-> <<"broker", "1883">>, ident |-> "app"]
    /\ pc = [p \in Procs |-> "idle"]
    /\ idx = [p \in Procs |-> 1]
    /\ snap = [p \in Procs |-> NoSnap]
    /\ number = [p \in Procs |-> ""]
    /\ lastDec = NoDec

\* One reader attached, cards of one make (they share their ATR): the two
\* scan passes compete for the reader.
Init ==
    /\ InitCommon
    /\ PassesOnly
    /\ ParserOff
    /\ readers = <<"r1">>
    /\ cardAtr = [c \in Cards |-> "3b01"]
    /\ watch = WatchOff

\* The same, following each pass owner's consecutive decisions.
InitDup ==
    /\ InitCommon
    /\ PassesOnly
    /\ ParserOff
    /\ readers = <<"r1">>
    /\ cardAtr = [c \in Cards |-> "3b01"]
    /\ watch = NoWatch

\* Two readers attached, cards of two makes.
InitTwo ==
    /\ InitCommon
    /\ PassesOnly
    /\ ParserOff
    /\ readers = <<"r1", "r2">>
    /\ cardAtr = [c \in Cards |-> IF c = "k1" THEN "3b01" ELSE "3b02"]
    /\ watch = WatchOff

Attached == {readers[i] : i \in 1..Len(readers)}

(***************************************************************************)
(* Hardware: a card is inserted into or removed from a reader.             *)
(***************************************************************************)
InsertCard(r, c) ==
    /\ r \in Attached
    /\ slot[r] = NoCard
    /\ \A q \in ReaderSet : slot[q] # c
    /\ slot' = [slot EXCEPT ![r] = c]
    /\ fetches' = [fetches EXCEPT ![r] = 0]
    /\ UNCHANGED <<TASK_POOL, running, readers, cardAtr, cards, server, pc,
                   idx, snap, number, lastDec, watch, sessVars, synced, monVars>>

RemoveCard(r) ==
    /\ slot[r] # NoCard
    /\ slot' = [slot EXCEPT ![r] = NoCard]
    /\ fetches' = [fetches EXCEPT ![r] = 0]
    /\ UNCHANGED <<TASK_POOL, running, readers, cardAtr, cards, server, pc,
                   idx, snap, number, lastDec, watch, sessVars, synced, monVars>>

(***************************************************************************)
(* A scan pass: sc_monitor's inner loop body ("monitor") and               *)
(* manual_sync_cards(_, false) ("manual"), both ending in                  *)
(* process_reader_states over the reader states get_status_change filled.  *)
(***************************************************************************)
SlotAtr(r) == IF slot[r] = NoCard THEN "" ELSE cardAtr[slot[r]]

StartPass(p) ==
    /\ pc[p] = "idle"
    /\ p = "monitor" => mpc \in {None, "process"}
    /\ snap' = [snap EXCEPT ![p] = [r \in ReaderSet |-> SlotAtr(r)]]
    /\ idx' = [idx EXCEPT ![p] = 1]
    /\ pc' = [pc EXCEPT ![p] = "decide"]
    /\ synced' = [synced EXCEPT ![p] = {}]
    /\ UNCHANGED <<TASK_POOL, running, readers, cardAtr, slot, cards,
                   server, number, lastDec, watch, sessVars, monVars, fetches>>

\* The reader the pass is at, and the ATR the pass holds for it.
CurReader(p) == readers[idx[p]]
CurAtr(p) == snap[p][CurReader(p)]

\* Variant: the event is emitted for Create only.
emits_sync_for_create(action) == action = "Create"

\* "Emit event for Create or Delete, but not Ignore".
emits_sync(action) == action # "Ignore"

\* End of one iteration of the for loop of process_reader_states, with or
\* without emit_event("global-cards-sync", ..); after the last reader the
\* function returns Ok(()), and sc_monitor yields and loops.
NextReader(p, emit) ==
    /\ synced' = IF emit /\ mpc # None
                 THEN [synced EXCEPT ![p] = @ \cup {CurReader(p)}]
                 ELSE synced
    /\ current' = IF mpc = None \/ p # "monitor" THEN current
                  ELSE [current EXCEPT ![CurReader(p)] = CurAtr(p)]
    /\ IF idx[p] < Len(readers)
       THEN /\ idx' = [idx EXCEPT ![p] = idx[p] + 1]
            /\ pc' = [pc EXCEPT ![p] = "decide"]
            /\ snap' = snap
            /\ mpc' = mpc
       ELSE /\ idx' = [idx EXCEPT ![p] = 1]
            /\ pc' = [pc EXCEPT ![p] = "idle"]
            /\ snap' = [snap EXCEPT ![p] = NoSnap]
            /\ mpc' = IF p = "monitor" /\ mpc # None THEN "setup" ELSE mpc

\* The head of one iteration: a virtual reader is skipped, the name of any
\* other reader is unwrapped as text, and should_register_new_card(reader,
\* atr).await takes the decision in one step under the lock.
Decide(p) ==
    /\ pc[p] = "decide"
    /\ LET r == CurReader(p)
           a == CurAtr(p)
           d == should_register_new_card(TASK_POOL, running, r, a)
       IN  IF is_virtual_reader(ReaderName(r))
           THEN /\ NextReader(p, FALSE)
                /\ UNCHANGED <<TASK_POOL, running, lastDec, watch>>
           ELSE IF ~to_str_ok(ReaderName(r))
           THEN /\ pc' = [pc EXCEPT ![p] = "panicked"]
                /\ UNCHANGED <<TASK_POOL, running, lastDec, watch, idx,
                               snap, synced, mpc, current>>
           ELSE /\ TASK_POOL' = d.pool
                /\ running' = d.run
                /\ lastDec' = [result |-> d.result,
                               removed |-> d.pool # TASK_POOL,
                               second |-> a # "" /\ watch[p][r] = a]
                /\ IF d.result = "Create"
                   THEN /\ watch' = IF watch[p][r] = None THEN watch
                                    ELSE [watch EXCEPT ![p][r] = a]
                        /\ pc' = [pc EXCEPT ![p] = "fetch"]
                        /\ UNCHANGED <<idx, snap, synced, mpc, current>>
                   ELSE /\ watch' = IF watch[p][r] = None THEN watch
                                    ELSE [watch EXCEPT ![p][r] = ""]
                        /\ NextReader(p, emits_sync(d.result))
    /\ UNCHANGED <<readers, cardAtr, slot, cards, server, number, sessVars,
                   ctx, msleep, fetches>>

\* Times the commands of get_iccid are counted up to.
MaxFetches == 2

\* ManagedCard::get_iccid on a session whose OnceCell holds `cell`, with the
\* card answering both commands: the cached value without a command, else
\* SELECT and READ BINARY, and the identifier read is stored in the cell.
get_iccid(cell, card) ==
    IF cell # Absent
    THEN [ret |-> cell[1], cell |-> cell, sent |-> 0]
    ELSE [ret |-> card, cell |-> Some(card), sent |-> 1]

\* The commands sent to the card in reader r are counted.
CountFetch(r, sent) ==
    fetches' = IF mpc = None THEN fetches
               ELSE [fetches EXCEPT
                        ![r] = IF @ + sent > MaxFetches THEN MaxFetches
                               ELSE @ + sent]

\* ManagedCard::new (its OnceCell is new, hence empty), get_iccid and
\* get_from_cache(Cards, iccid): the session is opened on whatever card is in
\* the reader now; any of the device calls may fail, and then the iteration
\* ends.
FetchOk(p) ==
    /\ pc[p] = "fetch"
    /\ slot[CurReader(p)] # NoCard
    /\ LET got == get_iccid(Absent, slot[CurReader(p)])
       IN  /\ \E n \in LookupNumbers(cards, got.ret) :
                  number' = [number EXCEPT ![p] = n]
           /\ CountFetch(CurReader(p), got.sent)
    /\ pc' = [pc EXCEPT ![p] = "ensure"]
    /\ UNCHANGED <<TASK_POOL, running, readers, cardAtr, slot, cards,
                   server, idx, snap, lastDec, watch, sessVars, synced,
                   monVars>>

\* Variant: the bridge task is spawned before the identifier is read, and
\* stays when the reading fails.
create_failed_spawns(pool, run) ==
    IF \E t \in TaskIds : t \notin (run \cup PoolTasks(pool))
    THEN [pool |-> pool, run |-> run \cup {NewTask(run, pool)}]
    ELSE [pool |-> pool, run |-> run]

\* The Err arms of the Create arm: the error is logged and nothing else is
\* done to the registry or its tasks.
create_failed(pool, run) == [pool |-> pool, run |-> run]

\* ManagedCard::new fails, or get_iccid fails at one of its commands.
FetchFail(p) ==
    /\ pc[p] = "fetch"
    /\ \E sent \in {0, 1} :
           /\ sent = 1 => slot[CurReader(p)] # NoCard
           /\ CountFetch(CurReader(p), sent)
    /\ TASK_POOL' = create_failed(TASK_POOL, running).pool
    /\ running' = create_failed(TASK_POOL, running).run
    /\ NextReader(p, emits_sync("Create"))
    /\ UNCHANGED <<readers, cardAtr, slot, cards,
                   server, number, lastDec, watch, sessVars, ctx, msleep>>

\* ensure_connection(rs.name(), card_number, atr, managed_card).await
Ensure(p) ==
    /\ pc[p] = "ensure"
    /\ LET e == ensure_connection(TASK_POOL, running, server, CurReader(p),
                                  number[p], CurAtr(p))
       IN  /\ TASK_POOL' = e.pool
           /\ running' = e.run
    /\ number' = [number EXCEPT ![p] = ""]
    /\ NextReader(p, emits_sync("Create"))
    /\ UNCHANGED <<readers, cardAtr, slot, cards, server, lastDec, watch,
                   sessVars, ctx, msleep, fetches>>

(***************************************************************************)
(* Control entry points.                                                   *)
(***************************************************************************)
\* app_connect.rs: app_connection()
AppConnection ==
    /\ LET e == app_connection(TASK_POOL, running, server)
       IN  /\ e.pool # TASK_POOL
           /\ TASK_POOL' = e.pool
           /\ running' = e.run
    /\ UNCHANGED <<readers, cardAtr, slot, cards, server, pc, idx, snap,
                   number, lastDec, watch, sessVars, synced, monVars, fetches>>

\* config.rs: remove_card(cardnumber) -> remove_card_from_config
RemoveCardConfig(n) ==
    /\ n \in cards
    /\ cards' = cards \ {n}
    /\ LET e == remove_connections(TASK_POOL, running, <<n>>)
       IN  /\ TASK_POOL' = e.pool
           /\ running' = e.run
    /\ UNCHANGED <<readers, cardAtr, slot, server, pc, idx, snap, number,
                   lastDec, watch, sessVars, synced, monVars, fetches>>

\* config.rs: update_card(cardnumber, content) adding a card
UpdateCard(n) ==
    /\ n \notin cards
    /\ cards' = cards \cup {n}
    /\ UNCHANGED <<TASK_POOL, running, readers, cardAtr, slot, server, pc,
                   idx, snap, number, lastDec, watch, sessVars, synced, monVars, fetches>>

\* config.rs: update_server(host, ident, theme)
UpdateServer(cfg) ==
    /\ cfg # server
    /\ server' = cfg
    /\ UNCHANGED <<TASK_POOL, running, readers, cardAtr, slot, cards, pc,
                   idx, snap, number, lastDec, watch, sessVars, synced, monVars, fetches>>

\* smart_card.rs: manual_sync_cards(_, true)
RestartAll ==
    /\ TASK_POOL # <<>>
    /\ LET e == remove_connections_all(TASK_POOL, running)
       IN  /\ TASK_POOL' = e.pool
           /\ running' = e.run
    /\ UNCHANGED <<readers, cardAtr, slot, cards, server, pc, idx, snap,
                   number, lastDec, watch, sessVars, synced, monVars, fetches>>

Next ==
    \/ \E r \in ReaderSet, c \in Cards : InsertCard(r, c)
    \/ \E r \in ReaderSet : RemoveCard(r)
    \/ \E p \in Procs : StartPass(p)
    \/ \E p \in Procs : Decide(p)
    \/ \E p \in Procs : FetchOk(p)
    \/ \E p \in Procs : FetchFail(p)
    \/ \E p \in Procs : Ensure(p)
    \/ AppConnection
    \/ \E n \in CardNumbers : RemoveCardConfig(n)
    \/ \E n \in CardNumbers : UpdateCard(n)
    \/ \E cfg \in ServerConfigs : UpdateServer(cfg)
    \/ RestartAll

Spec == Init /\ [][Next]_vars

SpecDup == InitDup /\ [][Next]_vars

\* The Reader Monitor alone scanning two readers, with the control entry
\* points that change the registry or the card configuration.
NextSeq ==
    \/ \E r \in ReaderSet, c \in Cards : InsertCard(r, c)
    \/ \E r \in ReaderSet : RemoveCard(r)
    \/ StartPass("monitor")
    \/ Decide("monitor")
    \/ FetchOk("monitor")
    \/ FetchFail("monitor")
    \/ Ensure("monitor")
    \/ AppConnection
    \/ \E n \in CardNumbers : RemoveCardConfig(n)
    \/ \E n \in CardNumbers : UpdateCard(n)
    \/ RestartAll

SpecSeq == InitTwo /\ [][NextSeq]_vars

(***************************************************************************)
(* sc_monitor: the outer loop establishes the hardware context, the inner  *)
(* loop lists the readers, waits for a change and runs a scan pass.        *)
(***************************************************************************)
\* Seconds sc_monitor sleeps after Context::establish failed.
ESTABLISH_RETRY_SECS == 5

\* What the steps of sc_monitor outside its scan pass leave alone.
scanVars == <<TASK_POOL, running, readers, cardAtr, slot, cards, server, pc,
              idx, snap, number, lastDec, watch, synced, fetches>>

\* Context::establish(Scope::User) returns Ok(ctx).
EstablishOk ==
    /\ mpc = "establish"
    /\ mpc' = "setup"
    /\ ctx' = "ctx"
    /\ current' = Unaware
    /\ UNCHANGED <<msleep, scanVars, sessVars>>

\* Context::establish fails: sleep and `continue` the outer loop.
EstablishFail ==
    /\ mpc = "establish"
    /\ mpc' = "sleep"
    /\ msleep' = ESTABLISH_RETRY_SECS
    /\ UNCHANGED <<ctx, current, scanVars, sessVars>>

\* One second of tokio::time::sleep passes.
MonitorTick ==
    /\ mpc = "sleep"
    /\ msleep > 0
    /\ msleep' = msleep - 1
    /\ UNCHANGED <<mpc, ctx, current, scanVars, sessVars>>

\* The sleep is over: back to the head of the outer loop.
MonitorWake ==
    /\ mpc = "sleep"
    /\ msleep = 0
    /\ mpc' = "establish"
    /\ UNCHANGED <<ctx, msleep, current, scanVars, sessVars>>

\* setup_reader_states(&ctx, ..): list_readers succeeds or fails; on Err the
\* inner loop is left, the context is dropped with the iteration of the
\* outer loop and the next iteration starts at once.
SetupOk ==
    /\ mpc = "setup"
    /\ mpc' = "wait"
    /\ UNCHANGED <<ctx, msleep, current, scanVars, sessVars>>

SetupFail ==
    /\ mpc = "setup"
    /\ mpc' = "establish"
    /\ ctx' = None
    /\ UNCHANGED <<msleep, current, scanVars, sessVars>>

\* ctx.get_status_change(None, ..) returns Ok or Err; Err is a `break` too.
WaitOk ==
    /\ mpc = "wait"
    /\ mpc' = "process"
    /\ UNCHANGED <<ctx, msleep, current, scanVars, sessVars>>

WaitFail ==
    /\ mpc = "wait"
    /\ mpc' = "establish"
    /\ ctx' = None
    /\ UNCHANGED <<msleep, current, scanVars, sessVars>>

\* Hardware: a reader is plugged in; list_readers reports it after the
\* readers it reported before, and a pass works on the reader states set up
\* before it, so that the reader is seen by the next pass.
Pluggable == {"rx"}

AttachReader(r) ==
    /\ r \notin Attached
    /\ \A p \in Procs : pc[p] = "idle"
    /\ readers' = Append(readers, r)
    /\ UNCHANGED <<TASK_POOL, running, cardAtr, slot, cards, server, pc, idx,
                   snap, number, lastDec, watch, synced, monVars, fetches, sessVars>>

\* sc_monitor from its start, with a reader of a remote desktop session and
\* a card reader attached.
InitMonitor ==
    /\ InitCommon
    /\ ParserOff
    /\ readers = <<"rv", "r1">>
    /\ cardAtr = [c \in Cards |-> "3b01"]
    /\ watch = WatchOff
    /\ synced = NoSync
    /\ fetches = [r \in ReaderSet |-> 0]
    /\ mpc = "establish"
    /\ ctx = None
    /\ msleep = 0
    /\ current = Unaware
    /\ reader_states = <<>>
    /\ rapdu = <<>>
    /\ iccid_cell = Absent

NextMonitor ==
    \/ EstablishOk
    \/ EstablishFail
    \/ MonitorTick
    \/ MonitorWake
    \/ SetupOk
    \/ SetupFail
    \/ WaitOk
    \/ WaitFail
    \/ StartPass("monitor")
    \/ Decide("monitor")
    \/ FetchOk("monitor")
    \/ FetchFail("monitor")
    \/ Ensure("monitor")
    \/ \E r \in ReaderSet, c \in Cards : InsertCard(r, c)
    \/ \E r \in ReaderSet : RemoveCard(r)
    \/ \E r \in Pluggable : AttachReader(r)
    \/ \E n \in CardNumbers : RemoveCardConfig(n)
    \/ \E n \in CardNumbers : UpdateCard(n)

SpecMonitor == InitMonitor /\ [][NextMonitor]_vars

(***************************************************************************)
(* sc_monitor's watched-reader list: setup_reader_states refreshes it and  *)
(* get_status_change writes the event states of its entries.               *)
(***************************************************************************)
\* pcsc::PNP_NOTIFICATION(): the name of the "reader list changed"
\* pseudo-reader.
PNP_NOTIFICATION == "\\\\?PnP?\\Notification"

\* State::UNAWARE: no flag set.
UNAWARE == {}

\* ReaderState::new(name, State::UNAWARE)
NewReaderState(name) == [name |-> name, event |-> UNAWARE, current |-> UNAWARE]

\* vec![ReaderState::new(PNP_NOTIFICATION(), State::UNAWARE)]
NewReaderStates == <<NewReaderState(PNP_NOTIFICATION)>>

\* rs.event_state().intersects(State::UNKNOWN | State::IGNORE)
is_dead(rs) == rs.event \cap {"UNKNOWN", "IGNORE"} # {}

\* reader_states.retain(|rs| !is_dead(rs))
retain_alive(states) ==
    LET Kept(rs) == ~is_dead(rs) IN SelectSeq(states, Kept)

\* for name in names: push a new reader state unless one of that name is in
\* the list.
RECURSIVE push_new_readers(_, _)
push_new_readers(states, names) ==
    IF names = <<>> THEN states
    ELSE LET name == Head(names)
             known == \E i \in 1..Len(states) : states[i].name = name
         IN  push_new_readers(IF known THEN states
                              ELSE Append(states, NewReaderState(name)),
                              Tail(names))

\* rs.sync_current_state() for every entry.
sync_current_state(states) ==
    [i \in 1..Len(states) |-> [states[i] EXCEPT !.current = states[i].event]]

\* setup_reader_states with list_readers returning `names`.
setup_reader_states(states, names) ==
    sync_current_state(push_new_readers(retain_alive(states), names))

\* Context::establish succeeds and the outer loop makes its new list of
\* reader states.
NewContext ==
    /\ mpc = "establish"
    /\ mpc' = "setup"
    /\ ctx' = "ctx"
    /\ reader_states' = NewReaderStates
    /\ UNCHANGED <<msleep, current, scanVars, cardVars, bridgeVars,
                   parserVars, iccidVars>>

\* setup_reader_states returns Ok(()).
RefreshOk ==
    /\ mpc = "setup"
    /\ mpc' = "wait"
    /\ reader_states' = setup_reader_states(reader_states, readers)
    /\ UNCHANGED <<ctx, msleep, current, scanVars, cardVars, bridgeVars,
                   parserVars, iccidVars>>

\* list_readers fails inside setup_reader_states, after the dead entries
\* were dropped: the inner loop is left.
RefreshFail ==
    /\ mpc = "setup"
    /\ mpc' = "establish"
    /\ ctx' = None
    /\ reader_states' = retain_alive(reader_states)
    /\ UNCHANGED <<msleep, current, scanVars, cardVars, bridgeVars,
                   parserVars, iccidVars>>

\* The event state get_status_change writes for an entry: a reader the
\* hardware does not know is UNKNOWN | IGNORE, the pseudo-reader is so on a
\* platform without the notification; CHANGED marks a difference from the
\* current state.
Reported(rs, known) ==
    LET flags == IF known THEN {"EMPTY"} ELSE {"UNKNOWN", "IGNORE"}
    IN  IF flags = rs.current \ {"CHANGED"} THEN flags
        ELSE flags \cup {"CHANGED"}

\* ctx.get_status_change(None, &mut reader_states) returns Ok(()); the scan
\* pass that follows leaves the list as it is.
StatusChange ==
    /\ mpc = "wait"
    /\ mpc' = "setup"
    /\ \E pnp_supported \in BOOLEAN :
           reader_states' =
               [i \in 1..Len(reader_states) |->
                   LET rs == reader_states[i]
                       known == IF rs.name = PNP_NOTIFICATION
                                THEN pnp_supported
                                ELSE rs.name \in Attached
                   IN  [rs EXCEPT !.event = Reported(rs, known)]]
    /\ UNCHANGED <<ctx, msleep, current, scanVars, cardVars, bridgeVars,
                   parserVars, iccidVars>>

\* Hardware: a reader is unplugged.
DetachReader(r) ==
    /\ r \in Attached
    /\ \A p \in Procs : pc[p] = "idle"
    /\ LET Other(n) == n # r IN readers' = SelectSeq(readers, Other)
    /\ UNCHANGED <<TASK_POOL, running, cardAtr, slot, cards, server, pc, idx,
                   snap, number, lastDec, watch, synced, monVars, fetches, sessVars>>

\* The readers plugged and unplugged while the list is followed.
WatchedReaders == {"r1", "r2"}

\* sc_monitor at its start, no reader attached.
InitWatch ==
    /\ InitCommon
    /\ ParserOff
    /\ readers = <<>>
    /\ cardAtr = [c \in Cards |-> "3b01"]
    /\ watch = WatchOff
    /\ synced = NoSync
    /\ fetches = [r \in ReaderSet |-> 0]
    /\ mpc = "establish"
    /\ ctx = None
    /\ msleep = 0
    /\ current = CurrentOff
    /\ reader_states = <<>>
    /\ rapdu = <<>>
    /\ iccid_cell = Absent

NextWatch ==
    \/ NewContext
    \/ RefreshOk
    \/ RefreshFail
    \/ StatusChange
    \/ \E r \in WatchedReaders : AttachReader(r)
    \/ \E r \in WatchedReaders : DetachReader(r)

SpecWatch == InitWatch /\ [][NextWatch]_vars

(***************************************************************************)
(* The ATR Parser: parse_atr_and_get_protocol(atr).                        *)
(***************************************************************************)
\* Longest ATR, in bytes, given to the parser.
MaxAtrBytes == 5

\* The hexadecimal digits, by value; hex::decode takes both cases.
HexLower == <<"0", "1", "2", "3", "4", "5", "6", "7",
              "8", "9", "a", "b", "c", "d", "e", "f">>
HexUpper == <<"0", "1", "2", "3", "4", "5", "6", "7",
              "8", "9", "A", "B", "C", "D", "E", "F">>

IsHexDigit(c) == \E k \in 1..16 : HexLower[k] = c \/ HexUpper[k] = c
HexValue(c) == (CHOOSE k \in 1..16 : HexLower[k] = c \/ HexUpper[k] = c) - 1

\* hex::encode(bytes): two lowercase digits per byte.
hex_encode(bytes) ==
    [i \in 1..(2 * Len(bytes)) |->
        IF i % 2 = 1 THEN HexLower[(bytes[(i + 1) \div 2] \div 16) + 1]
        ELSE HexLower[(bytes[i \div 2] % 16) + 1]]

\* hex::decode(text): Err for an odd length or a character that is no
\* digit, else the bytes.
hex_decode(text) ==
    IF Len(text) % 2 = 1 \/ \E i \in 1..Len(text) : ~IsHexDigit(text[i])
    THEN [ok |-> FALSE, bytes |-> <<>>]
    ELSE [ok |-> TRUE,
          bytes |-> [i \in 1..(Len(text) \div 2) |->
                        16 * HexValue(text[2 * i - 1]) + HexValue(text[2 * i])]]

\* y & mask != 0 for a mask of one bit, as 1 or 0.
Bit(y, mask) == (y \div mask) % 2

\* atr_bytes[index]: a read out of range panics.
Abort == "<panic>"
ByteAt(atr_bytes, index) ==
    IF index < Len(atr_bytes) THEN Some(atr_bytes[index + 1]) ELSE Abort

\* match proto { 0x00 => T0, 0x01 => T1, _ => T0 }
protocol_of(td) ==
    IF td % 16 = 1 THEN "T1" ELSE "T0"

\* Variant: TD1 is used whenever it is present.
effective_protocol_td1_first(td1, td2) ==
    IF td1 # Absent THEN protocol_of(td1[1])
    ELSE IF td2 # Absent THEN protocol_of(td2[1])
    ELSE "T0"

\* The end of the function: TD2 if it exists, else TD1, else T0.
effective_protocol(td1, td2) ==
    IF td2 # Absent THEN protocol_of(td2[1])
    ELSE IF td1 # Absent THEN protocol_of(td1[1])
    ELSE "T0"

\* The interface bytes the function finds in atr_bytes (at least 2 bytes):
\* TD1 and TD2 as Options, Abort for a read out of range.
interface_bytes(atr_bytes) ==
    LET y1 == ByteAt(atr_bytes, 1)[1] \div 16
        index1 == 2 + Bit(y1, 1) + Bit(y1, 2) + Bit(y1, 4)
        td1 == IF Bit(y1, 8) # 0 /\ index1 < Len(atr_bytes)
               THEN ByteAt(atr_bytes, index1)
               ELSE Absent
        y2 == IF td1 = Absent THEN 0 ELSE td1[1] \div 16
        index2 == index1 + 1 + Bit(y2, 1) + Bit(y2, 2) + Bit(y2, 4)
        td2 == IF td1 # Absent /\ Bit(y2, 8) # 0 /\ index2 < Len(atr_bytes)
               THEN ByteAt(atr_bytes, index2)
               ELSE Absent
    IN  [td1 |-> td1, td2 |-> td2]

parse_atr_and_get_protocol(atr) ==
    LET decoded == hex_decode(atr)
    IN  IF ~decoded.ok THEN "T0"
        ELSE IF Len(decoded.bytes) < 2 THEN "T0"
        ELSE LET found == interface_bytes(decoded.bytes)
             IN  effective_protocol(found.td1, found.td2)

\* Bytes the ATRs given to the parser are made of: format bytes and
\* interface bytes announcing nothing, TD only, or TA and TD, with protocol
\* codes 0, 1 and 15.
AtrByteValues == {0, 1, 15, 128, 129, 144}

AtrByteSeqs ==
    UNION {[1..n -> AtrByteValues] : n \in 0..MaxAtrBytes}

\* What may follow the digits of the bytes: nothing, one digit more (an odd
\* length), or characters that are no digits.
TextTails == {<<>>, <<"3">>, <<"z", "z">>}

\* The parser is called on the text.
ParseAtr ==
    /\ protocol = None
    /\ protocol' = parse_atr_and_get_protocol(atr_text)
    /\ UNCHANGED <<atr_text, TASK_POOL, running, readers, cardAtr, slot,
                   cards, server, pc, idx, snap, number, lastDec, watch,
                   synced, monVars, fetches, cardVars, bridgeVars, watchVars,
                   iccidVars>>

\* Any text of the bounded set is the argument.
InitAtr ==
    /\ InitCommon
    /\ PassesOnly
    /\ readers = <<"r1">>
    /\ cardAtr = [c \in Cards |-> "3b01"]
    /\ watch = WatchOff
    /\ \E bytes \in AtrByteSeqs, tail \in TextTails :
           atr_text = hex_encode(bytes) \o tail
    /\ protocol = None

NextAtr == ParseAtr

SpecAtr == InitAtr /\ [][NextAtr]_vars

(***************************************************************************)
(* ManagedCard::get_iccid: the identifier derived from the response to     *)
(* READ BINARY.                                                            *)
(***************************************************************************)
\* Longest data part, in bytes, of a response given to get_iccid.
MaxIccidBytes == 3

\* bytes.iter().map(|b| format!("{:02X}", b)).collect::<String>()
format_02X(bytes) ==
    [i \in 1..(2 * Len(bytes)) |->
        IF i % 2 = 1 THEN HexUpper[(bytes[(i + 1) \div 2] \div 16) + 1]
        ELSE HexUpper[(bytes[i \div 2] % 16) + 1]]

\* read_response.strip_suffix("9000").unwrap_or(&read_response)
strip_status(text) ==
    IF Len(text) >= 4
       /\ SubSeq(text, Len(text) - 3, Len(text)) = <<"9", "0", "0", "0">>
    THEN SubSeq(text, 1, Len(text) - 4)
    ELSE text

\* get_iccid from the response of READ BINARY on: the status is stripped,
\* the rest decoded and written out in upper case; Err when it does not
\* decode.
iccid_of_response(read_response) ==
    LET decoded == hex_decode(strip_status(read_response))
    IN  IF decoded.ok THEN Some(format_02X(decoded.bytes)) ELSE Absent

\* Byte values of the data part, and the status words a card answers with:
\* 9000, 6A82 (file not found), 6282 (end of file reached before the length
\* asked for).
IccidByteValues == {0, 137, 144}
StatusWords == {<<144, 0>>, <<106, 130>>, <<98, 130>>}

\* get_iccid with an empty cell and both transmits answered: the value
\* derived is stored by self.iccid.set and returned.
ReadIccid ==
    /\ iccid_cell = Absent
    /\ iccid_of_response(hex_encode(rapdu)) # Absent
    /\ iccid_cell' = iccid_of_response(hex_encode(rapdu))
    /\ UNCHANGED <<rapdu, TASK_POOL, running, readers, cardAtr, slot,
                   cards, server, pc, idx, snap, number, lastDec, watch,
                   synced, monVars, fetches, cardVars, bridgeVars, watchVars,
                   parserVars>>

\* The card answers READ BINARY with any response of the bounded set.
InitIccid ==
    /\ InitCommon
    /\ ParserOff
    /\ readers = <<"r1">>
    /\ cardAtr = [c \in Cards |-> "3b01"]
    /\ watch = WatchOff
    /\ synced = NoSync
    /\ fetches = [r \in ReaderSet |-> 0]
    /\ mpc = None
    /\ ctx = None
    /\ msleep = 0
    /\ current = CurrentOff
    /\ reader_states = <<>>
    /\ \E n \in 0..MaxIccidBytes :
           \E data \in [1..n -> IccidByteValues], sw \in StatusWords :
               rapdu = data \o sw
    /\ iccid_cell = Absent

NextIccid == ReadIccid

SpecIccid == InitIccid /\ [][NextIccid]_vars


(***************************************************************************)
(* Properties of the registry and of the Registration Decision.            *)
(***************************************************************************)
\* The step in which pass p takes its Registration Decision.
DecideStep(p) ==
    /\ pc[p] = "decide"
    /\ pc'[p] # "decide" \/ idx'[p] # idx[p]
    /\ ~is_virtual_reader(ReaderName(CurReader(p)))
    /\ to_str_ok(ReaderName(CurReader(p)))

\* The step in which pass p runs ensure_connection.
EnsureStep(p) == pc[p] = "ensure" /\ pc'[p] # "ensure"

\* An entry of `reader` holding a non-empty ATR.
HasCardOf(pool, reader) ==
    \E i \in 1..Len(pool) :
        /\ pool[i].reader_name = reader
        /\ pool[i].atr # None /\ pool[i].atr # ""

\* C1: no two registry entries have the same client identifier.
C1_ClientIdUnique ==
    \A i, j \in 1..Len(TASK_POOL) :
        i # j => TASK_POOL[i].client_id # TASK_POOL[j].client_id

\* C1 witness: the registry holds the application entry and a card entry
\* while the device identity equals a configured card number.
C1_Witness ==
    /\ Len(TASK_POOL) >= 2
    /\ server.ident \in CardNumbers
    /\ \E i \in 1..Len(TASK_POOL) : TASK_POOL[i].reader_name = None
    /\ \E i \in 1..Len(TASK_POOL) : TASK_POOL[i].reader_name # None

\* C2: no two registry entries have the same (reader name, ATR) pair.
C2_PairUnique ==
    \A i, j \in 1..Len(TASK_POOL) :
        (i # j /\ TASK_POOL[i].reader_name # None)
            => ~(/\ TASK_POOL[i].reader_name = TASK_POOL[j].reader_name
                 /\ TASK_POOL[i].atr = TASK_POOL[j].atr)

C4_NothingToRemove ==
    [][\A p \in Procs :
          (DecideStep(p) /\ CurAtr(p) = ""
                         /\ ~HasCardOf(TASK_POOL, CurReader(p)))
             => lastDec'.result = "Ignore"]_vars

\* C5: for a reader with an empty ATR and an entry holding a card of that
\* reader, the decision is Delete, that entry leaves the registry, its task
\* is aborted, and every other entry and task stays.
C5_Removal ==
    [][\A p \in Procs :
          (DecideStep(p) /\ CurAtr(p) = ""
                         /\ HasCardOf(TASK_POOL, CurReader(p)))
             => /\ lastDec'.result = "Delete"
                /\ \E i \in 1..Len(TASK_POOL) :
                      /\ TASK_POOL[i].reader_name = CurReader(p)
                      /\ TASK_POOL[i].atr \notin {None, ""}
                      /\ TASK_POOL' = RemoveAt(TASK_POOL, i)
                      /\ TASK_POOL[i].task \notin running'
                      /\ running' = running \ {TASK_POOL[i].task}]_vars

\* C5 witness: a decision returned Delete, removed an entry and left others.
C5_Witness ==
    /\ lastDec.result = "Delete"
    /\ lastDec.removed
    /\ Len(TASK_POOL) >= 2
    /\ PoolTasks(TASK_POOL) \subseteq running

\* C6: the second of two consecutive decisions of a pass owner on the same
\* (reader, non-empty ATR), the first having been Create, is Ignore.
C6_SecondIsIgnore == lastDec.second => lastDec.result = "Ignore"

\* C6 as amended: when the first pass's ensure_connection inserts, the
\* registry holds an entry of the pair; the second decision is Ignore when
\* the registry holds an entry of the pair and Create again when it does not.
C6_Amended ==
    [][\A p \in Procs :
          /\ (EnsureStep(p) /\ TASK_POOL' # TASK_POOL)
                => /\ watch[p][CurReader(p)] = CurAtr(p)
                   /\ HasPair(TASK_POOL', CurReader(p), CurAtr(p))
          /\ (DecideStep(p) /\ CurAtr(p) # ""
                            /\ watch[p][CurReader(p)] = CurAtr(p))
                => /\ lastDec'.second
                   /\ lastDec'.result =
                         IF HasPair(TASK_POOL, CurReader(p), CurAtr(p))
                         THEN "Ignore" ELSE "Create"]_vars

\* C6 witness: a second decision on the pair returned Ignore.
C6_Witness == lastDec.second /\ lastDec.result = "Ignore"

\* C7: the two passes never both hold Create for the same (reader, ATR).
C7_OneCreate ==
    \A p, q \in Procs :
        (p # q /\ pc[p] \in {"fetch", "ensure"} /\ pc[q] \in {"fetch", "ensure"})
            => ~(CurReader(p) = CurReader(q) /\ CurAtr(p) = CurAtr(q))

-----------------------------------------------------------------------------
\* Card Session (ManagedCard): one handle behind one lock, shared by clones.

\* Bound on the identities of the card handle kept behind the lock.
MaxHandles == 1
\* What the card can answer to a command, as hex text.
Responses == {"9000", "6a82"}
\* A failed transmit (decode error, device error).
Err == "<err>"
\* The value send_apdu returns when it has no card response.
Sentinel == "6F00"

\* The task id of the bridge task that is followed, and whether it has not
\* been aborted.
BridgeTask == 1
Alive == BridgeTask \in running

\* A future is polled on: a call the bridge task has made goes on only while
\* the task has not been aborted; other callers are not tasks of the registry.
Scheduled(u) == (u = "bridge" /\ bpc = "card") => Alive

\* Command texts a caller may pass to send_apdu: one that is hex, one that
\* is not.
Commands == {"00a4", "zz"}

\* hex::decode(apdu_hex) succeeds.
hex_decode_ok(apdu_hex) == apdu_hex \in {"00a4"}

\* Mutex::lock / blocking_lock on `inner` that does not wait for the owner.
lock_available_always(owner) == TRUE

\* Mutex::lock / blocking_lock on `inner`: the caller goes on only when no
\* one owns the lock; the lock is not reentrant.
lock_available(owner) == owner = None

\* send_apdu that hands an error of the retry to its caller.
send_apdu_after_raises(c, out) ==
    IF out # Err
    THEN [pc |-> "done", ret |-> out]
    ELSE IF c.tx1 = None
    THEN [pc |-> "rc", ret |-> None]
    ELSE [pc |-> "done", ret |-> Err]

\* send_apdu after an apdu_transmit has returned `out`: a response is
\* returned as it is; a failed first attempt goes on to recreate; a failed
\* retry gives the sentinel.
send_apdu_after(c, out) ==
    IF out # Err
    THEN [pc |-> "done", ret |-> out]
    ELSE IF c.tx1 = None
    THEN [pc |-> "rc", ret |-> None]
    ELSE [pc |-> "done", ret |-> Sentinel]

\* The call record with the result of the current transmit attempt.
Attempt(c, out) == IF c.tx1 = None THEN [c EXCEPT !.tx1 = out]
                                   ELSE [c EXCEPT !.tx2 = out]

\* The end of one apdu_transmit of user u with result `out`.
AfterTransmit(u, out) ==
    LET n == send_apdu_after(call[u], out)
    IN  /\ cpc' = [cpc EXCEPT ![u] = n.pc]
        /\ call' = [call EXCEPT ![u] = [Attempt(call[u], out) EXCEPT !.ret = n.ret]]

\* apdu_transmit: the command text is not hex; nothing reaches the card.
TxDecodeFail(u) ==
    /\ Scheduled(u)
    /\ cpc[u] = "tx"
    /\ ~call[u].hexOk
    /\ AfterTransmit(u, Err)
    /\ UNCHANGED <<cardLock, handle, regVars, bridgeVars>>

\* apdu_transmit: the blocking task takes the lock and starts the transmit.
TxLock(u) ==
    /\ Scheduled(u)
    /\ cpc[u] = "tx"
    /\ call[u].hexOk
    /\ lock_available(cardLock)
    /\ cardLock' = u
    /\ cpc' = [cpc EXCEPT ![u] = "tx_in"]
    /\ UNCHANGED <<handle, call, regVars, bridgeVars>>

\* apdu_transmit: the device answers or fails; the lock is released.
TxDone(u, out) ==
    /\ Scheduled(u)
    /\ cpc[u] = "tx_in"
    /\ cardLock' = None
    /\ AfterTransmit(u, out)
    /\ UNCHANGED <<handle, regVars, bridgeVars>>

\* The caller of recreate goes on: send_apdu returns the sentinel on failure
\* and retries on success; reconnect only logs the failure and returns,
\* dropping its guard.
AfterRecreate(u, ok) ==
    IF call[u].op = "send_apdu"
    THEN /\ cpc' = [cpc EXCEPT ![u] = IF ok THEN "tx" ELSE "done"]
         /\ call' = [call EXCEPT ![u].rc = IF ok THEN "ok" ELSE Err,
                                 ![u].ret = IF ok THEN None ELSE Sentinel]
         /\ cardLock' = cardLock
    ELSE /\ cpc' = [cpc EXCEPT ![u] = "done"]
         /\ call' = [call EXCEPT ![u].rc = IF ok THEN "ok" ELSE Err]
         /\ cardLock' = None

\* recreate: create_card fails, before the lock is asked for.
RcCreateFail(u) ==
    /\ Scheduled(u)
    /\ cpc[u] = "rc"
    /\ AfterRecreate(u, FALSE)
    /\ UNCHANGED <<handle, regVars, bridgeVars>>

\* recreate: create_card gives a new handle; the lock is asked for next.
RcCreateOk(u) ==
    /\ Scheduled(u)
    /\ cpc[u] = "rc"
    /\ cpc' = [cpc EXCEPT ![u] = "rc_wait"]
    /\ UNCHANGED <<cardLock, handle, call, regVars, bridgeVars>>

\* recreate: with the lock, the handle is replaced and the lock dropped.
RcReplace(u) ==
    /\ Scheduled(u)
    /\ cpc[u] = "rc_wait"
    /\ lock_available(cardLock)
    /\ handle' = (handle + 1) % (MaxHandles + 1)
    /\ AfterRecreate(u, TRUE)
    /\ UNCHANGED <<regVars, bridgeVars>>

\* reconnect: takes the lock and keeps the guard to its end.
RnLock(u) ==
    /\ Scheduled(u)
    /\ cpc[u] = "rn_wait"
    /\ lock_available(cardLock)
    /\ cardLock' = u
    /\ cpc' = [cpc EXCEPT ![u] = "rn"]
    /\ UNCHANGED <<handle, call, regVars, bridgeVars>>

\* reconnect: the reset in place succeeds.
RnResetOk(u) ==
    /\ Scheduled(u)
    /\ cpc[u] = "rn"
    /\ cardLock' = None
    /\ cpc' = [cpc EXCEPT ![u] = "done"]
    /\ call' = [call EXCEPT ![u].reset = "ok"]
    /\ UNCHANGED <<handle, regVars, bridgeVars>>

\* reconnect: the reset fails; recreate is called with the guard still held.
RnResetFail(u) ==
    /\ Scheduled(u)
    /\ cpc[u] = "rn"
    /\ cpc' = [cpc EXCEPT ![u] = "rc"]
    /\ call' = [call EXCEPT ![u].reset = Err]
    /\ UNCHANGED <<cardLock, handle, regVars, bridgeVars>>

\* One step inside a call on the session by user u.
CardStep(u) ==
    \/ TxDecodeFail(u)
    \/ TxLock(u)
    \/ \E out \in Responses \cup {Err} : TxDone(u, out)
    \/ RcCreateFail(u)
    \/ RcCreateOk(u)
    \/ RcReplace(u)
    \/ RnLock(u)
    \/ RnResetOk(u)
    \/ RnResetFail(u)

\* The record of a call of send_apdu(apdu_hex, _) at its entry.
SendApduCall(apdu_hex) ==
    [NoCall EXCEPT !.op = "send_apdu", !.apdu = apdu_hex,
                   !.hexOk = hex_decode_ok(apdu_hex)]

\* A user calls send_apdu with a command text that is hex or not.
CallSendApdu(u, apdu_hex) ==
    /\ cpc[u] = "idle"
    /\ cpc' = [cpc EXCEPT ![u] = "tx"]
    /\ call' = [call EXCEPT ![u] = SendApduCall(apdu_hex)]
    /\ UNCHANGED <<cardLock, handle, regVars, bridgeVars>>

\* A user calls reconnect.
CallReconnect(u) ==
    /\ cpc[u] = "idle"
    /\ cpc' = [cpc EXCEPT ![u] = "rn_wait"]
    /\ call' = [call EXCEPT ![u] = [NoCall EXCEPT !.op = "reconnect"]]
    /\ UNCHANGED <<cardLock, handle, regVars, bridgeVars>>

\* The call has returned to the user.
Return(u) ==
    /\ cpc[u] = "done"
    /\ cpc' = [cpc EXCEPT ![u] = "idle"]
    /\ UNCHANGED <<cardLock, handle, call, regVars, bridgeVars>>

NextCard ==
    \E u \in Users :
        \/ \E apdu_hex \in Commands : CallSendApdu(u, apdu_hex)
        \/ CallReconnect(u)
        \/ Return(u)
        \/ TxDecodeFail(u)
        \/ TxLock(u)
        \/ \E out \in Responses \cup {Err} : TxDone(u, out)
        \/ RcCreateFail(u)
        \/ RcCreateOk(u)
        \/ RcReplace(u)
        \/ RnLock(u)
        \/ RnResetOk(u)
        \/ RnResetFail(u)

\* Two users calling into one session, the registry left alone.
SpecCard == Init /\ [][NextCard]_vars

-----------------------------------------------------------------------------
\* Properties of the Card Session.

\* The users whose transmit is in flight on the device.
InFlight == {u \in Users : cpc[u] = "tx_in"}

\* C8: send_apdu never hands an error to its caller and always returns a
\* response: the response of the first transmit if that succeeds; the
\* response of the retry if the first transmit fails and recreate and the
\* retried transmit succeed; the sentinel "6F00" in every other case.
C8_SendApduResult ==
    \A u \in Users :
        (cpc[u] = "done" /\ call[u].op = "send_apdu") =>
            /\ call[u].ret \in Responses \cup {Sentinel}
            /\ call[u].ret =
                   IF call[u].tx1 \in Responses THEN call[u].tx1
                   ELSE IF call[u].rc = "ok" /\ call[u].tx2 \in Responses
                        THEN call[u].tx2
                        ELSE Sentinel

\* A send_apdu has returned the response of its retry, after a first
\* transmit that failed on the device.
C8_Witness ==
    \E u \in Users :
        /\ cpc[u] = "done"
        /\ call[u].op = "send_apdu"
        /\ call[u].hexOk
        /\ call[u].tx1 = Err
        /\ call[u].tx2 \in Responses
        /\ call[u].ret = call[u].tx2

\* C9: at most one transmit is in flight on the handle of a session at any
\* instant, and the handle is neither replaced (recreate) nor reset
\* (reconnect) while a transmit on it is in flight.
C9_TransmitExclusive ==
    [][ /\ Cardinality(InFlight') <= 1
        /\ handle' # handle => InFlight = {}
        /\ (\E u \in Users : cpc[u] = "rn" /\ cpc'[u] # "rn") => InFlight = {} ]_vars

\* One user's transmit is in flight while the other user holds a new handle
\* and waits for the lock to put it in place.
C9_Witness ==
    \E u, v \in Users : u # v /\ cpc[u] = "tx_in" /\ cpc[v] = "rc_wait"

-----------------------------------------------------------------------------
\* The bridge task of one registered card (the task spawned by
\* ensure_connection), its session used through the user "bridge".

\* The ATR the task was started with (atr_clone).
BridgeAtr == "3b01"

\* Inbound publishes by what the handler finds in them: a body that is not
\* JSON, no boolean finish, finish = true, finish = false without a string
\* payload, finish = false with payload "", finish = false with a command.
PublishKinds == {"notjson", "nofinish", "finish", "nopayload", "start", "command"}
OtherKinds == {"connack", "pingresp", "other"}

\* What eventloop.poll() can deliver.
Notifications ==
    {[kind |-> k, topicOk |-> t, payload |-> ""] :
        k \in (PublishKinds \ {"command"}) \cup OtherKinds, t \in {TRUE}}
    \cup {[kind |-> k, topicOk |-> FALSE, payload |-> ""] : k \in PublishKinds}
    \cup {[kind |-> "command", topicOk |-> TRUE, payload |-> c] : c \in Commands}

\* process_rapdu_mqtt_hex: the text of the JSON object with the one field
\* payload, as the pair of the field's name and its value.
process_rapdu_mqtt_hex(rapdu_mqtt_hex) == <<"payload", rapdu_mqtt_hex>>

\* payload_ack as String::new() leaves it: a body with no text at all.
EmptyBody == <<>>

\* One emit_event of the task: online and authenticating as passed.
Status(online, auth) == [online |-> online, auth |-> auth]

\* SLEEP_DURATION_SECS: seconds to wait after a failed poll.
SLEEP_DURATION_SECS == 10

\* A task that emits the status "online" at every successful poll.
online_edge_always(is_on, was_on) == TRUE

\* The first branch of the Ok arm: the status "online" is emitted when both
\* flags are down.
online_edge(is_on, was_on) == ~is_on /\ ~was_on

\* A handler that sends the card a command of its own.
BridgeCalls_own_command(op, hex_value) ==
    /\ cpc' = [cpc EXCEPT !["bridge"] = IF op = "reconnect" THEN "rn_wait" ELSE "tx"]
    /\ call' = [call EXCEPT !["bridge"] =
                    IF op = "reconnect" THEN [NoCall EXCEPT !.op = op]
                                        ELSE SendApduCall("00a4")]
    /\ bpc' = "card"

\* A handler that hands its call on the session to a task of its own and
\* goes back to poll().
BridgeCalls_detached(op, hex_value) ==
    /\ cpc' = [cpc EXCEPT !["bridge"] = IF op = "reconnect" THEN "rn_wait" ELSE "tx"]
    /\ call' = [call EXCEPT !["bridge"] =
                    IF op = "reconnect" THEN [NoCall EXCEPT !.op = op]
                                        ELSE SendApduCall(hex_value)]
    /\ bpc' = "poll"

\* A call of the bridge on its session starts: reconnect(), or
\* send_apdu(hex_value, _).
BridgeCalls(op, hex_value) ==
    /\ cpc' = [cpc EXCEPT !["bridge"] = IF op = "reconnect" THEN "rn_wait" ELSE "tx"]
    /\ call' = [call EXCEPT !["bridge"] =
                    IF op = "reconnect" THEN [NoCall EXCEPT !.op = op]
                                        ELSE SendApduCall(hex_value)]
    /\ bpc' = "card"

\* The notification is handled without a call on the session.
BridgeNoCall ==
    /\ cpc' = cpc
    /\ call' = [call EXCEPT !["bridge"] = NoCall]

\* poll() returns a notification: the online flags and the first status,
\* then the handler up to its first call on the session.
\* Variant: the acknowledgment re-emits "online" with no authenticating
\* value.
ping_status_online_only == Status(Some(TRUE), Absent)

\* The status the PingResp arm emits: Some(true), Some(false).
ping_status == Status(Some(TRUE), Some(FALSE))

PollOk(n) ==
    LET first == IF online_edge(is_online, was_online)
                 THEN <<Status(Some(TRUE), Absent)>> ELSE <<>>
        idle == Status(Some(TRUE), Some(FALSE))
    IN  /\ Alive
        /\ bpc = "poll"
        /\ cpc["bridge"] = "idle"
        /\ frame' = n
        /\ authAt' = auth_process
        /\ is_online' = TRUE
        /\ was_online' = IF ~is_online THEN TRUE ELSE was_online
        /\ auth_process' = auth_process
        /\ CASE n.kind \in PublishKinds /\ ~n.topicOk ->
                   /\ BridgeNoCall
                   /\ bpc' = "ended"
                   /\ emits' = first
                   /\ replies' = <<>>
             [] n.kind \in {"notjson", "nofinish", "connack", "other"} /\ n.topicOk ->
                   /\ BridgeNoCall
                   /\ bpc' = "poll"
                   /\ emits' = first
                   /\ replies' = <<>>
             [] n.kind = "pingresp" ->
                   /\ BridgeNoCall
                   /\ bpc' = "poll"
                   /\ emits' = Append(first, ping_status)
                   /\ replies' = <<>>
             [] n.kind = "finish" /\ n.topicOk ->
                   /\ BridgeCalls("reconnect", "")
                   /\ emits' = Append(first, idle)
                   /\ replies' = <<>>
             [] n.kind = "nopayload" /\ n.topicOk ->
                   /\ BridgeNoCall
                   /\ bpc' = "poll"
                   /\ emits' = first
                   /\ replies' = <<EmptyBody>>
             [] n.kind = "start" /\ n.topicOk /\ auth_process ->
                   /\ BridgeCalls("reconnect", "")
                   /\ emits' = first
                   /\ replies' = <<>>
             [] n.kind = "start" /\ n.topicOk /\ ~auth_process ->
                   /\ BridgeNoCall
                   /\ bpc' = "poll"
                   /\ emits' = Append(first, idle)
                   /\ replies' = <<process_rapdu_mqtt_hex(BridgeAtr)>>
             [] n.kind = "command" /\ n.topicOk ->
                   /\ BridgeCalls("send_apdu", n.payload)
                   /\ emits' = first
                   /\ replies' = <<>>
        /\ UNCHANGED <<cardLock, handle, backoff, regVars>>

\* The call on the session has returned: the rest of the handler, up to the
\* publish of the reply.
BridgeResume ==
    /\ Alive
    /\ bpc = "card"
    /\ cpc["bridge"] = "done"
    /\ cpc' = [cpc EXCEPT !["bridge"] = "idle"]
    /\ bpc' = "poll"
    /\ CASE frame.kind = "finish" ->
                /\ replies' = <<process_rapdu_mqtt_hex("")>>
                /\ emits' = emits
                /\ auth_process' = FALSE
         [] frame.kind = "start" ->
                /\ replies' = <<process_rapdu_mqtt_hex(BridgeAtr)>>
                /\ emits' = Append(emits, Status(Some(TRUE), Some(FALSE)))
                /\ auth_process' = auth_process
         [] frame.kind = "command" ->
                /\ replies' = <<process_rapdu_mqtt_hex(call["bridge"].ret)>>
                /\ emits' = Append(emits, Status(Some(TRUE), Some(TRUE)))
                /\ auth_process' = TRUE
    /\ UNCHANGED <<cardLock, handle, call, is_online, was_online, frame,
                   authAt, backoff, regVars>>

\* poll() returns an error: offline status, flags cleared, then the sleep.
PollErr ==
    /\ Alive
    /\ bpc = "poll"
    /\ bpc' = "sleep"
    /\ backoff' = SLEEP_DURATION_SECS
    /\ emits' = <<Status(Some(FALSE), Absent)>>
    /\ replies' = <<>>
    /\ is_online' = FALSE
    /\ was_online' = FALSE
    /\ frame' = NoFrame
    /\ UNCHANGED <<auth_process, authAt, cardVars, regVars>>

\* A sleep that is over at once, whatever is left of it.
sleep_over_at_once(left) == TRUE

\* tokio::time::sleep(Duration::from_secs(SLEEP_DURATION_SECS)) is over.
sleep_over(left) == left = 0

\* One second of the sleep passes.
Tick ==
    /\ Alive
    /\ bpc = "sleep"
    /\ backoff > 0
    /\ backoff' = backoff - 1
    /\ UNCHANGED <<bpc, is_online, was_online, auth_process, frame, authAt,
                   replies, emits, cardVars, regVars>>

\* The sleep after an error is over; the loop polls again.
Wake ==
    /\ Alive
    /\ bpc = "sleep"
    /\ sleep_over(backoff)
    /\ bpc' = "poll"
    /\ UNCHANGED <<is_online, was_online, auth_process, frame, authAt,
                   replies, emits, backoff, cardVars, regVars>>

\* JoinHandle::abort takes effect: the task, not alive any more, is dropped
\* where it is suspended. A guard of `inner` it holds in reconnect is dropped
\* with it; a transmit in flight in the blocking thread is left to end.
Cancelled ==
    /\ ~Alive
    /\ bpc \notin {"aborted", "ended"}
    /\ bpc' = "aborted"
    /\ IF cpc["bridge"] = "tx_in"
       THEN UNCHANGED <<cpc, cardLock>>
       ELSE /\ cpc' = [cpc EXCEPT !["bridge"] = "idle"]
            /\ cardLock' = IF cardLock = "bridge" THEN None ELSE cardLock
    /\ UNCHANGED <<handle, call, is_online, was_online, auth_process, frame,
                   authAt, replies, emits, backoff, regVars>>

\* The transmit of the blocking thread of an aborted task ends; the lock is
\* released and nobody takes the result.
BlockingDone ==
    /\ bpc = "aborted"
    /\ cpc["bridge"] = "tx_in"
    /\ cardLock' = None
    /\ cpc' = [cpc EXCEPT !["bridge"] = "idle"]
    /\ UNCHANGED <<handle, call, bridgeVars, regVars>>

\* The steps the task takes by itself once poll() has returned.
BridgeRun ==
    \/ BridgeResume
    \/ Tick
    \/ Wake
    \/ CardStep("bridge")

\* The steps the runtime takes for an aborted task.
BridgeDrop ==
    \/ Cancelled
    \/ BlockingDone

\* The bridge task of the entry (n1, r1, BridgeAtr) with all that can cancel
\* it: the card leaves the reader and a scan pass prunes the entry, the card
\* is removed from the configuration, all sessions are torn down.
NextBridge ==
    \/ \E n \in Notifications : PollOk(n)
    \/ PollErr
    \/ BridgeRun
    \/ BridgeDrop
    \/ \E r \in ReaderSet : RemoveCard(r)
    \/ StartPass("monitor")
    \/ Decide("monitor")
    \/ FetchFail("monitor")
    \/ \E n \in CardNumbers : RemoveCardConfig(n)
    \/ RestartAll

\* The registry holds the entry of card k1 in reader r1, its bridge task has
\* just been spawned.
InitBridge ==
    /\ SessIdle
    /\ TASK_POOL = <<[client_id |-> "n1", reader_name |-> "r1",
                      atr |-> BridgeAtr, task |-> BridgeTask]>>
    /\ running = {BridgeTask}
    /\ readers = <<"r1">>
    /\ cardAtr = [c \in Cards |-> BridgeAtr]
    /\ slot = [r \in ReaderSet |-> IF r = "r1" THEN "k1" ELSE NoCard]
    /\ cards = {"n1", "n2"}
    /\ server = [host |-> <<"broker", "1883">>, ident |-> "app"]
    /\ pc = [p \in Procs |-> "idle"]
    /\ idx = [p \in Procs |-> 1]
    /\ snap = [p \in Procs |-> NoSnap]
    /\ number = [p \in Procs |-> ""]
    /\ lastDec = NoDec
    /\ watch = WatchOff
    /\ PassesOnly
    /\ ParserOff

\* The task and the runtime are scheduled as long as they can take a step.
SpecBridge ==
    InitBridge /\ [][NextBridge]_vars /\ WF_vars(BridgeRun) /\ WF_vars(BridgeDrop)

-----------------------------------------------------------------------------
\* Properties of the bridge task.

\* The task holds a start-of-exchange frame it can answer.
StartFrame == frame.kind = "start" /\ frame.topicOk

\* The start-of-exchange frame has been handled as described: one reply
\* with the ATR, a status online and not authenticating, no transmit, and a
\* reconnect exactly when the authenticating flag was set.
StartFrameHandled ==
    /\ bpc = "poll"
    /\ replies = <<process_rapdu_mqtt_hex(BridgeAtr)>>
    /\ \E i \in 1..Len(emits) : emits[i] = Status(Some(TRUE), Some(FALSE))
    /\ call["bridge"].tx1 = None
    /\ (call["bridge"].op = "reconnect") <=> authAt

\* C10: an inbound frame with finish = false and an empty payload yields
\* exactly one reply whose payload is the ATR, emits a status online and not
\* authenticating, transmits no command to the card, and resets the card
\* first if and only if the authenticating flag was set.
C10_StartFrameAnswered ==
    (StartFrame /\ Alive) ~> ((StartFrame /\ StartFrameHandled) \/ ~Alive)

\* Whenever the handling of a start-of-exchange frame does come to its end,
\* it has done what is described, and nothing is published before the reset.
StartFrameWhenDone ==
    StartFrame => /\ bpc = "poll" => StartFrameHandled
                  /\ bpc = "card" => replies = <<>> /\ authAt

\* Whether a status with these values is among those emitted.
Emitted(online, auth) ==
    \E i \in 1..Len(emits) : emits[i] = Status(online, auth)

\* The task holds a command frame it can answer.
CommandFrame == frame.kind = "command" /\ frame.topicOk

\* The command frame has been handled: send_apdu was called with the
\* payload as it came, its return value is the payload of the one reply, the
\* status online and authenticating was emitted and the flag is set.
CommandHandled ==
    /\ bpc = "poll"
    /\ call["bridge"].op = "send_apdu"
    /\ call["bridge"].apdu = frame.payload
    /\ call["bridge"].ret \in Responses \cup {Sentinel}
    /\ replies = <<process_rapdu_mqtt_hex(call["bridge"].ret)>>
    /\ Emitted(Some(TRUE), Some(TRUE))
    /\ auth_process

\* C11: an inbound frame with finish = false and a non-empty payload passes
\* the payload unmodified to send_apdu, yields exactly one reply whose
\* payload is the value send_apdu returned, emits a status online and
\* authenticating, and sets the authenticating flag.
C11_CommandFrame ==
    /\ []((CommandFrame /\ bpc = "poll") => CommandHandled)
    /\ []((CommandFrame /\ bpc = "card") => replies = <<>>)
    /\ (CommandFrame /\ Alive) ~> (CommandHandled \/ ~Alive)

\* A command frame, come while the flag was set already, was answered with
\* the response of the retry.
C11_Witness ==
    /\ CommandFrame
    /\ CommandHandled
    /\ authAt
    /\ call["bridge"].tx1 = Err
    /\ call["bridge"].ret \in Responses

\* The task holds a finish frame it can answer.
FinishFrame == frame.kind = "finish" /\ frame.topicOk

\* The finish frame has been handled: status online and not authenticating,
\* reconnect called, one reply with an empty payload, the flag cleared.
FinishHandled ==
    /\ bpc = "poll"
    /\ Emitted(Some(TRUE), Some(FALSE))
    /\ call["bridge"].op = "reconnect"
    /\ replies = <<process_rapdu_mqtt_hex("")>>
    /\ ~auth_process

\* C12: an inbound frame with finish = true emits a status online and not
\* authenticating, calls reconnect on the session, replies with an empty
\* payload and clears the authenticating flag, whatever the flag was.
C12_FinishFrame == (FinishFrame /\ Alive) ~> (FinishHandled \/ ~Alive)

\* Whenever the handling of a finish frame does come to its end, it has done
\* what is described; the status is emitted before the reconnect.
FinishFrameWhenDone ==
    FinishFrame => /\ bpc = "poll" => FinishHandled
                   /\ bpc = "card" => /\ Emitted(Some(TRUE), Some(FALSE))
                                      /\ replies = <<>>
                                      /\ auth_process = authAt

\* The task holds a frame that is not JSON or lacks a required field.
MalformedFrame ==
    frame.kind \in {"notjson", "nofinish", "nopayload"} /\ frame.topicOk

\* C13: for every inbound frame that is not JSON or lacks a required field
\* (no boolean finish, or finish = false without a string payload) the
\* bridge publishes no reply, sends nothing to the card and leaves the
\* authenticating flag as it was.
C13_MalformedDropped ==
    MalformedFrame => /\ replies = <<>>
                      /\ call["bridge"] = NoCall
                      /\ auth_process = authAt

\* C14: every message the bridge publishes has a body of the form
\* {payload: <string>}.
C14_ReplyFormat ==
    \A i \in 1..Len(replies) :
        Len(replies[i]) = 2 /\ replies[i][1] = "payload"

\* The task holds a well-formed frame: finish = true, or finish = false with
\* a string payload, empty or not.
WellFormedFrame ==
    frame.kind \in {"finish", "start", "command"} /\ frame.topicOk

\* C15: every well-formed inbound frame received by a bridge task that is
\* not cancelled is eventually followed by a published reply, whatever the
\* outcomes of the card operations it triggers.
C15_AlwaysAnswers ==
    (WellFormedFrame /\ Alive) ~> ((WellFormedFrame /\ replies # <<>>) \/ ~Alive)

\* C16: a bridge task ends only when it is cancelled through the registry;
\* it never ends by itself.
C16_NoSelfEnd == bpc # "ended"

\* The status of a failed poll.
Offline == Status(Some(FALSE), Absent)

\* C17: on every error from poll the bridge emits an offline status, puts
\* both online flags down and sleeps the fixed 10 s; no poll is attempted
\* before the sleep is over, and then the task, unless cancelled, polls
\* again.
C17_Backoff ==
    /\ [][(bpc = "poll" /\ bpc' = "sleep")
             => /\ emits' = <<Offline>>
                /\ ~is_online' /\ ~was_online'
                /\ backoff' = SLEEP_DURATION_SECS
                /\ SLEEP_DURATION_SECS = 10]_vars
    /\ [][bpc = "sleep" => bpc' \in {"sleep", "poll", "aborted"}]_vars
    /\ [](bpc = "sleep" => ~is_online /\ ~was_online)
    /\ [](bpc = "poll" => backoff = 0)
    /\ (bpc = "sleep" /\ Alive) ~> (bpc = "poll" \/ ~Alive)

\* The sleep after a failed poll is over and the task, its authentication
\* flag still set, is at its next poll.
C17_Witness ==
    /\ bpc = "poll"
    /\ emits = <<Offline>>
    /\ backoff = 0
    /\ auth_process
    /\ Alive

\* The number of statuses "online" (no authenticating value) among `e`.
EdgeCount(e) ==
    Cardinality({i \in 1..Len(e) : e[i] = Status(Some(TRUE), Absent)})

\* C18: the status "card present / online" is emitted exactly once per
\* transition from offline to online: at the first successful poll after
\* the start of the task or after a failed poll, and at no other step.
C18_EdgeOnline ==
    [][IF \E n \in Notifications : PollOk(n)
       THEN EdgeCount(emits') = IF frame = NoFrame THEN 1 ELSE 0
       ELSE EdgeCount(emits') <= EdgeCount(emits)]_vars

\* A successful poll that followed another one emitted a status, and not
\* the status "online".
C18_Witness ==
    /\ frame.kind = "pingresp"
    /\ is_online
    /\ emits = <<Status(Some(TRUE), Some(FALSE))>>

\* The entry of the bridge task followed is in the registry.
InRegistry == BridgeTask \in PoolTasks(TASK_POOL)

\* C19: every step that removes an entry from the registry (pruning in the
\* Registration Decision, remove_connections, remove_connections_all)
\* aborts the bridge task of that entry in the same step, and a bridge task
\* whose entry is gone publishes no reply and emits no status any more.
C19_RemovalCancels ==
    /\ [][\A i \in 1..Len(TASK_POOL) :
             TASK_POOL[i].task \notin PoolTasks(TASK_POOL')
                => TASK_POOL[i].task \notin running']_vars
    /\ [][~InRegistry => replies' = replies /\ emits' = emits]_vars
    /\ [](~InRegistry => ~Alive)

\* The entry was pruned by the Registration Decision while its task, having
\* published a reply, was inside a call on the card; the task is dropped.
C19_Witness ==
    /\ lastDec.result = "Delete"
    /\ lastDec.removed
    /\ ~InRegistry
    /\ bpc = "aborted"
    /\ frame.kind = "command"
    /\ call["bridge"].tx1 # None
    /\ replies = <<>>

\* C20: manual_sync_cards with restart = true leaves the registry empty and
\* the bridge task of every entry it held aborted, and performs no reader
\* scan and no Registration Decision.
C20_FullTeardown ==
    [][RestartAll => /\ TASK_POOL' = <<>>
                     /\ running' \cap PoolTasks(TASK_POOL) = {}
                     /\ running' \subseteq running
                     /\ UNCHANGED <<pc, idx, snap, number, lastDec, slot>>]_vars

\* Nothing is registered and no task runs although both readers hold their
\* configured cards and the monitor's latest decision found an entry.
C20_Witness ==
    /\ TASK_POOL = <<>>
    /\ running = {}
    /\ cards = CardNumbers
    /\ \A r \in Attached : slot[r] # NoCard
    /\ lastDec.result = "Ignore"

-----------------------------------------------------------------------------
\* Properties of the Reader Monitor.

\* sc_monitor has ended: reader_name.to_str().unwrap() panicked in its pass.
MonitorPanicked == pc["monitor"] = "panicked"

\* Steps of sc_monitor in which a call on the hardware layer fails.
EstablishFailed == mpc = "establish" /\ mpc' \notin {"establish", "setup"}
ListFailed == mpc = "setup" /\ mpc' \notin {"setup", "wait"}
ChangeWaitFailed == mpc = "wait" /\ mpc' \notin {"wait", "process"}

\* C21: sc_monitor never terminates; a failure to establish the hardware
\* context is followed by a wait of 5 seconds and another attempt; after an
\* error while listing readers or waiting for changes it leaves the inner
\* loop and establishes a fresh context, not reusing the failed one.
C21_MonitorNeverGivesUp ==
    /\ [](~MonitorPanicked)
    /\ [][EstablishFailed =>
              mpc' = "sleep" /\ msleep' = ESTABLISH_RETRY_SECS]_vars
    /\ [][mpc = "sleep" /\ mpc' # "sleep" =>
              msleep = 0 /\ mpc' = "establish"]_vars
    /\ [][ListFailed \/ ChangeWaitFailed =>
              mpc' = "establish" /\ ctx' = None]_vars
    /\ [](mpc \in {"setup", "wait", "process"} => ctx # None)

\* C22: every failure of context establishment, of reader enumeration and
\* of the wait for a state change is followed by a delay before the next
\* attempt.
C22_RetryWithDelay ==
    [][EstablishFailed \/ ListFailed \/ ChangeWaitFailed =>
          mpc' = "sleep" /\ msleep' > 0]_vars

\* The step in which pass p ends its iteration for reader r.
IterationEnd(p, r) ==
    /\ pc[p] \in {"decide", "fetch", "ensure"}
    /\ CurReader(p) = r
    /\ idx'[p] # idx[p] \/ pc'[p] = "idle"

\* The Registration Decision of the iteration of pass p that ends in this
\* step: the one just taken, Create where the session was being set up,
\* none for a reader that is skipped.
IterationDecision(p) ==
    IF pc[p] \in {"fetch", "ensure"} THEN "Create"
    ELSE IF DecideStep(p) THEN lastDec'.result
    ELSE None

\* C23: in every scan pass a status-sync event is emitted for a reader if
\* and only if the Registration Decision for it was Create or Delete; an
\* iteration whose decision is Ignore emits none.
C23_SyncEvents ==
    [][\A p \in Procs : \A r \in ReaderSet :
          (r \in synced'[p] /\ r \notin synced[p])
              <=> (/\ IterationEnd(p, r)
                   /\ IterationDecision(p) \in {"Create", "Delete"})]_vars

\* The pass of sc_monitor has ended with the event of a Delete that removed
\* the entry of the reader, and nothing emitted for the skipped reader.
C23_Witness ==
    /\ mpc = "setup"
    /\ lastDec.result = "Delete" /\ lastDec.removed
    /\ synced["monitor"] = {"r1"}

\* Letter a of a name is letter b of a keyword, in either case.
SameLetter(a, b) ==
    \/ a = b
    \/ \E j \in 1..Len(UpperCase) : UpperCase[j] = a /\ LowerCase[j] = b

HoldsKeyword(name, keyword) ==
    \E k \in 0..(Len(name) - Len(keyword)) :
        \A i \in 1..Len(keyword) : SameLetter(name[k + i], keyword[i])

\* The readers whose name holds one of the keywords, in any case.
VirtualReaders ==
    {r \in ReaderSet :
        \/ HoldsKeyword(ReaderName(r), <<"v", "i", "r", "t", "u", "a", "l">>)
        \/ HoldsKeyword(ReaderName(r), <<"r", "e", "m", "o", "t", "e">>)
        \/ HoldsKeyword(ReaderName(r),
                        <<"m", "i", "c", "r", "o", "s", "o", "f", "t">>)}

\* Pass p is at a virtual reader and takes its step there.
VirtualStep(p) ==
    /\ pc[p] = "decide"
    /\ CurReader(p) \in VirtualReaders
    /\ pc'[p] # pc[p] \/ idx'[p] # idx[p]

\* C24: for a reader whose name contains "virtual", "remote" or "microsoft"
\* in any case no Registration Decision is run, no Card Session is created
\* and no registry entry with that reader name ever exists.
C24_VirtualNeverRegistered ==
    /\ [](\A i \in 1..Len(TASK_POOL) :
              TASK_POOL[i].reader_name \notin VirtualReaders)
    /\ [](\A p \in Procs :
              pc[p] \in {"fetch", "ensure"} => CurReader(p) \notin VirtualReaders)
    /\ [][\A p \in Procs :
              VirtualStep(p) => UNCHANGED <<TASK_POOL, running, lastDec>>]_vars

\* The pass of sc_monitor has gone past the virtual reader, for which it
\* holds the ATR of an inserted card.
C24_Witness ==
    /\ "rv" \in VirtualReaders
    /\ pc["monitor"] = "decide" /\ CurReader("monitor") = "r1"
    /\ snap["monitor"]["rv"] # ""
    /\ TASK_POOL = <<>>

\* The entries of `pool` for reader r.
EntriesOf(pool, r) == {i \in 1..Len(pool) : pool[i].reader_name = r}

\* Pass p ends the iteration in which it decided Create for reader r, which
\* had no entry left.
InsertionDone(p, r) ==
    /\ IterationEnd(p, r)
    /\ IterationDecision(p) = "Create"
    /\ EntriesOf(TASK_POOL, r) = {}

\* C25: when a card with a non-empty ATR is inserted into a non-virtual
\* reader that has no registry entry, after the scan pass that processes it
\* the system has created a session and fetched its identifier, and the
\* registry holds exactly one entry for that reader.
C25_InsertionRegisters ==
    [][\A p \in Procs : \A r \in ReaderSet :
          InsertionDone(p, r) =>
              /\ pc[p] = "ensure"
              /\ Cardinality(EntriesOf(TASK_POOL', r)) = 1]_vars

\* C25 as the code has it: the pass adds exactly one entry, of the reader,
\* the ATR and the card number, when the session was opened, the identifier
\* was read and maps to a card number that is no client identifier of the
\* registry, and the server address is valid; otherwise it adds none.
C25_Amended ==
    [][\A p \in Procs : \A r \in ReaderSet :
          InsertionDone(p, r) =>
              IF /\ pc[p] = "ensure"
                 /\ number[p] # ""
                 /\ number[p] \notin ClientIds(TASK_POOL)
                 /\ split_host_ok(server.host)
              THEN /\ Len(TASK_POOL') = Len(TASK_POOL) + 1
                   /\ SubSeq(TASK_POOL', 1, Len(TASK_POOL)) = TASK_POOL
                   /\ TASK_POOL'[Len(TASK_POOL')].reader_name = r
                   /\ TASK_POOL'[Len(TASK_POOL')].atr = CurAtr(p)
                   /\ TASK_POOL'[Len(TASK_POOL')].client_id = number[p]
                   /\ CurAtr(p) # ""
              ELSE TASK_POOL' = TASK_POOL]_vars

\* The pass of sc_monitor has ended after Create with the one entry of the
\* reader in the registry.
C25_Witness ==
    /\ pc["monitor"] = "idle" /\ pc["manual"] = "idle"
    /\ lastDec.result = "Create"
    /\ Len(TASK_POOL) = 1
    /\ TASK_POOL[1].reader_name = "r1" /\ TASK_POOL[1].atr = "3b01"

\* C26: between a card's insertion and its removal the two identifier
\* commands are sent to the card at most once, however many scan passes
\* occur for its reader.
C26_FetchedOnce == \A r \in ReaderSet : fetches[r] <= 1

-----------------------------------------------------------------------------
\* Properties of ManagedCard::reconnect.

\* The bridge task is inside a call of reconnect.
InReconnect ==
    /\ call["bridge"].op = "reconnect"
    /\ cpc["bridge"] \in {"rn_wait", "rn", "rc", "rc_wait"}

\* C27: reconnect always returns; when the reset in place fails it attempts
\* recreate and returns whether recreate succeeds or fails, and it leaves
\* the lock of the session's handle released.
C27_ReconnectCompletes ==
    /\ (InReconnect /\ Alive) ~> (~InReconnect \/ ~Alive)
    /\ [][InReconnect /\ ~InReconnect' /\ Alive' =>
              /\ cardLock' # "bridge"
              /\ call'["bridge"].reset = Err => call'["bridge"].rc # None]_vars

-----------------------------------------------------------------------------
\* Properties of the ATR Parser.

\* The bytes of the text given to the parser, when it is hexadecimal.
GivenBytes == hex_decode(atr_text).bytes

\* Reading the format byte (pos = 1) or a TD byte at position pos, counted
\* from 0: the position of the last interface byte it announces.
LastAnnounced(b, pos) ==
    LET y == b[pos + 1] \div 16
    IN  pos + Bit(y, 1) + Bit(y, 2) + Bit(y, 4) + Bit(y, 8)

\* The sequence holds every interface byte announced from pos on.
RECURSIVE HoldsAnnounced(_, _)
HoldsAnnounced(b, pos) ==
    /\ LastAnnounced(b, pos) < Len(b)
    /\ Bit(b[pos + 1] \div 16, 8) = 1 =>
           HoldsAnnounced(b, LastAnnounced(b, pos))

\* The TD bytes of a sequence that holds what it announces, in order.
RECURSIVE TDBytes(_, _)
TDBytes(b, pos) ==
    IF Bit(b[pos + 1] \div 16, 8) = 1
    THEN <<b[LastAnnounced(b, pos) + 1]>> \o TDBytes(b, LastAnnounced(b, pos))
    ELSE <<>>

\* The protocol a low nibble stands for.
NibbleProtocol(td) == IF td % 16 = 1 THEN "T1" ELSE "T0"

\* A hexadecimal text of an ATR that holds every interface byte it
\* announces.
WholeAtr ==
    /\ hex_decode(atr_text).ok
    /\ Len(GivenBytes) >= 2
    /\ HoldsAnnounced(GivenBytes, 1)

\* C28: for every byte sequence that contains all the interface bytes it
\* announces the parser returns the protocol in TD2's low nibble when TD2
\* is present, otherwise the one in TD1's low nibble when TD1 is present,
\* otherwise T=0; a protocol code other than 0 or 1 yields T=0.
C28_ParserResult ==
    (protocol # None /\ WholeAtr) =>
        LET tds == TDBytes(GivenBytes, 1)
        IN  protocol = IF Len(tds) >= 2 THEN NibbleProtocol(tds[2])
                       ELSE IF Len(tds) = 1 THEN NibbleProtocol(tds[1])
                       ELSE "T0"

\* T=1 in TD2 was returned for an ATR whose TD1 encodes T=0.
C28_Witness ==
    /\ WholeAtr
    /\ TDBytes(GivenBytes, 1) = <<128, 1>>
    /\ protocol = "T1"

\* The text ends before an interface byte it announces.
TruncatedAtr ==
    /\ hex_decode(atr_text).ok
    /\ Len(GivenBytes) >= 1
    /\ Len(GivenBytes) >= 2 => ~HoldsAnnounced(GivenBytes, 1)

\* C29: for every input text the parser returns a protocol without
\* aborting, and for a truncated text, a text that is not hexadecimal and
\* the empty text it returns T=0.
C29_ParserFallback ==
    protocol # None =>
        /\ protocol \in {"T0", "T1"}
        /\ (TruncatedAtr \/ ~hex_decode(atr_text).ok \/ atr_text = <<>>) =>
               protocol = "T0"

-----------------------------------------------------------------------------
\* C30: a keep-alive acknowledgment received while the bridge is idle
\* (online, not authenticating) emits a status with online = true and
\* authenticating = false, publishes no reply, sends nothing to the card and
\* changes no flag of the bridge.
C30_KeepAlive ==
    [][\A n \in Notifications :
          (n.kind = "pingresp" /\ is_online /\ ~auth_process /\ PollOk(n)) =>
              /\ emits' = <<Status(Some(TRUE), Some(FALSE))>>
              /\ replies' = <<>>
              /\ cpc'["bridge"] = "idle" /\ call'["bridge"].op = None
              /\ UNCHANGED <<cardLock, handle>>
              /\ UNCHANGED <<is_online, was_online, auth_process>>
              /\ bpc' = "poll"]_vars

\* The acknowledgment has been handled by the idle bridge.
C30_Witness ==
    /\ Alive
    /\ frame.kind = "pingresp"
    /\ bpc = "poll"
    /\ is_online /\ was_online /\ ~auth_process /\ ~authAt
    /\ emits = <<Status(Some(TRUE), Some(FALSE))>>
    /\ replies = <<>>
    /\ call["bridge"].op = None

-----------------------------------------------------------------------------
\* Properties of the removal by client identifier.

\* Lists of client identifiers remove_connections may be given: of known
\* cards, of the application, repeated or with no entry.
IdLists ==
    UNION {[1..n -> CardNumbers \cup {"app"}] : n \in 0..2}

\* The entries of `pool` whose client identifier is none of `ids`.
NotListed(pool, ids) ==
    LET Kept(c) == \A k \in 1..Len(ids) : c.client_id # ids[k]
    IN  SelectSeq(pool, Kept)

\* C31: remove_connections(ids) removes from the registry exactly the
\* entries whose client identifier is in ids and aborts the task of each,
\* leaving every other entry and its task untouched; an identifier with no
\* entry is a no-op. Stated of the function on every registry reached, and
\* of the removal a configuration change performs.
C31_SelectiveRemoval ==
    /\ [](\A ids \in IdLists :
              LET e == remove_connections(TASK_POOL, running, ids)
              IN  /\ e.pool = NotListed(TASK_POOL, ids)
                  /\ e.run = running \ (PoolTasks(TASK_POOL)
                                            \ PoolTasks(e.pool)))
    /\ [][\A n \in CardNumbers :
              (n \in cards /\ n \notin cards') =>
                  /\ TASK_POOL' = NotListed(TASK_POOL, <<n>>)
                  /\ running' = running \ (PoolTasks(TASK_POOL)
                                              \ PoolTasks(TASK_POOL'))]_vars

\* The card number of the first of two entries has been removed from the
\* configuration: the second entry and its task are all that is left.
C31_Witness ==
    /\ cards = {"n2"}
    /\ Len(TASK_POOL) = 1
    /\ TASK_POOL[1].client_id = "n2"
    /\ TASK_POOL[1].task = 2
    /\ running = {2}

-----------------------------------------------------------------------------
\* The entries of `pool` for reader r that hold an ATR other than atr.
StaleEntries(pool, r, atr) ==
    {i \in 1..Len(pool) : /\ pool[i].reader_name = r
                          /\ pool[i].atr # None
                          /\ pool[i].atr # atr}

\* C32: should_register_new_card(reader, atr) called with a non-empty atr
\* while the registry holds an entry of the same reader with a different
\* ATR removes that entry and aborts its task, so that the registry never
\* holds two entries for one reader name.
C32_StaleRemoved ==
    /\ [][\A p \in Procs :
              (/\ DecideStep(p)
               /\ CurAtr(p) # ""
               /\ StaleEntries(TASK_POOL, CurReader(p), CurAtr(p)) # {}) =>
                  /\ StaleEntries(TASK_POOL', CurReader(p), CurAtr(p)) = {}
                  /\ running' # running]_vars
    /\ [](\A r \in ReaderSet : Cardinality(EntriesOf(TASK_POOL, r)) <= 1)

\* A step in which user u begins a recreate inside send_apdu.
BeginsRecreate(u) ==
    /\ call'[u].op = "send_apdu"
    /\ cpc'[u] = "rc"
    /\ cpc[u] # "rc"

\* A step in which an apdu_transmit of a send_apdu of user u ends.
EndsTransmit(u) ==
    /\ call[u].op = "send_apdu"
    /\ cpc[u] \in {"tx", "tx_in"}
    /\ call'[u] # call[u]

\* C33: on a failed first transmit send_apdu calls recreate exactly once and
\* then retries the transmit exactly once; a call never makes more than two
\* transmits nor more than one recreate, and makes neither a recreate nor a
\* second transmit when the first transmit succeeds.
C33_RecoveryCounts ==
    /\ [][\A u \in Users :
              /\ BeginsRecreate(u) =>
                     /\ call'[u].tx1 = Err
                     /\ call'[u].rc = None
                     /\ call'[u].tx2 = None
              /\ (EndsTransmit(u) /\ call[u].tx1 # None) =>
                     /\ call[u].tx1 = Err
                     /\ call[u].rc = "ok"
                     /\ call[u].tx2 = None
                     /\ cpc'[u] = "done"]_vars
    /\ [](\A u \in Users :
              (call[u].op = "send_apdu" /\ cpc[u] = "done") =>
                  IF call[u].tx1 = Err
                  THEN call[u].rc # None /\ call[u].tx2 # None
                  ELSE call[u].rc = None /\ call[u].tx2 = None)

\* The readers whose state, as the pass of sc_monitor reads it, differs from
\* the current_state the wait was started with.
ChangedReaders == {r \in Attached : snap["monitor"][r] # current[r]}

\* C34: in a scan pass of sc_monitor, a watched reader whose state did not
\* change in that cycle (while another reader's did) causes no Registration
\* Decision, no Card Session creation and no status-sync event.
C34_OnlyChangedProcessed ==
    [][(/\ DecideStep("monitor")
        /\ ChangedReaders # {}
        /\ CurReader("monitor") \notin ChangedReaders) =>
           /\ lastDec' = lastDec
           /\ TASK_POOL' = TASK_POOL
           /\ running' = running
           /\ pc'["monitor"] # "fetch"
           /\ synced' = synced]_vars

\* The registry entries of `pool` that carry the reader name r.
NamedEntries(pool, r) == {pool[i] : i \in EntriesOf(pool, r)}

\* The step in which pass p leaves the Create arm through one of its Err
\* arms: ManagedCard::new or get_iccid has failed.
CreateFailedStep(p) ==
    /\ pc[p] = "fetch"
    /\ pc'[p] \notin {"fetch", "ensure"}

\* The step in which pass p has read the identifier and goes on to
\* ensure_connection.
IdentifierRead(p) ==
    /\ pc[p] = "fetch"
    /\ pc'[p] = "ensure"

\* C35: when the decision is Create but the creation of the Card Session or
\* the retrieval of the identifier fails, no bridge task is started and the
\* registry is unchanged; an entry that carries a reader name enters the
\* registry only in the ensure_connection of a pass that has read the
\* identifier of the card in that reader and looked its number up.
C35_FailedCreateLeavesNoTrace ==
    [][\A p \in Procs :
          /\ CreateFailedStep(p) =>
                 /\ TASK_POOL' = TASK_POOL
                 /\ running' = running
          /\ (pc'[p] = "ensure" /\ pc[p] # "ensure") =>
                 /\ IdentifierRead(p)
                 /\ slot[CurReader(p)] # NoCard
                 /\ number'[p] \in LookupNumbers(cards, slot[CurReader(p)])
          /\ \A r \in ReaderSet :
                 (NamedEntries(TASK_POOL', r) \ NamedEntries(TASK_POOL, r) # {}) =>
                     \E q \in Procs : /\ EnsureStep(q)
                                      /\ CurReader(q) = r
                                      /\ number[q] # ""]_vars

\* C35 witness: a pass has left the Create arm on a failure, and the
\* registry and the tasks are as they were before any card was seen.
C35_Witness ==
    /\ lastDec.result = "Create"
    /\ \E r \in Attached : fetches[r] > 0
    /\ TASK_POOL = <<>>
    /\ running = {}
    /\ \A p \in Procs : pc[p] = "idle"

\* The step in which the bridge task starts a call on its session.
BridgeCallStarts ==
    /\ cpc["bridge"] = "idle"
    /\ cpc'["bridge"] \in {"tx", "rn_wait"}

\* The step in which the handler of the frame the task holds ends.
HandlerEnds ==
    /\ bpc = "card"
    /\ bpc' = "poll"

\* C36: a bridge task handles its notifications one after another: the next
\* one is taken only when the handler of the one before has ended; the
\* handler of a frame calls send_apdu at most once, with the command of the
\* frame, and publishes at most one reply, which is out when the handler
\* ends, before the next notification is taken.
C36_OneFrameAtATime ==
    /\ [](Len(replies) <= 1)
    /\ [][/\ frame' # frame => (bpc = "poll" /\ cpc["bridge"] = "idle")
          /\ BridgeCallStarts =>
                 /\ bpc = "poll"
                 /\ bpc' = "card"
                 /\ frame'.kind \in {"finish", "start", "command"}
                 /\ call'["bridge"].op = "send_apdu" <=> frame'.kind = "command"
                 /\ call'["bridge"].op = "send_apdu" =>
                        call'["bridge"].apdu = frame'.payload
          /\ bpc = "card" =>
                 /\ frame' = frame
                 /\ call'["bridge"].op = call["bridge"].op
                 /\ call'["bridge"].apdu = call["bridge"].apdu
                 /\ replies = <<>>
                 /\ replies' # replies => HandlerEnds
          /\ HandlerEnds => Len(replies') = 1]_vars

\* C36 witness: the handler of a command frame has ended with its one reply
\* published, and the task is back at poll().
C36_Witness ==
    /\ bpc = "poll"
    /\ frame.kind = "command"
    /\ call["bridge"].op = "send_apdu"
    /\ call["bridge"].tx1 # None
    /\ cpc["bridge"] = "idle"
    /\ Len(replies) = 1

\* The step in which setup_reader_states returns Ok(()).
RefreshDone == mpc = "setup" /\ mpc' = "wait"

\* The entries of the watched list that carry the name n.
Watching(states, n) == {i \in 1..Len(states) : states[i].name = n}

\* C37: after every successful setup_reader_states the watched list holds the
\* "reader list changed" pseudo-reader, holds every reader the hardware lists
\* exactly once, and holds no entry whose event state is unknown or ignored.
C37_WatchedListRefreshed ==
    [][RefreshDone =>
          /\ Watching(reader_states', PNP_NOTIFICATION) # {}
          /\ \A r \in Attached : Cardinality(Watching(reader_states', r)) = 1
          /\ \A i \in 1..Len(reader_states') :
                 /\ "UNKNOWN" \notin reader_states'[i].event
                 /\ "IGNORE" \notin reader_states'[i].event]_vars

\* The response without its last two bytes, in upper-case digits.
DataPart(bytes) == format_02X(SubSeq(bytes, 1, Len(bytes) - 2))

\* C38: get_iccid returns the response to READ BINARY with its trailing
\* two-byte status removed, whatever the status is, and stores exactly that
\* value; the status bytes never become part of the identifier.
C38_StatusStripped ==
    iccid_cell # Absent => iccid_cell = Some(DataPart(rapdu))

\* C39: whenever the bridge task has emitted a status that carries an
\* authenticating value, that value equals auth_process once the handling of
\* the notification has ended, for every kind of frame and for the
\* keep-alive acknowledgment.
C39_AuthStatusMatches ==
    bpc = "poll" =>
        \A i \in 1..Len(emits) :
            emits[i].auth # Absent => emits[i].auth = Some(auth_process)

\* C40: no registry entry ever has an empty client identifier; a card whose
\* identifier maps to no card number gets no bridge task and no registry
\* entry.
C40_NoAnonymousSessions ==
    /\ [](\A i \in 1..Len(TASK_POOL) : TASK_POOL[i].client_id # "")
    /\ [][\A p \in Procs :
              (EnsureStep(p) /\ number[p] = "") =>
                  /\ TASK_POOL' = TASK_POOL
                  /\ running' = running]_vars

\* C40 witness: a pass has read the identifier of a card that has no card
\* number and is at ensure_connection with the empty lookup result, no
\* entry registered.
C40_Witness ==
    \E p \in Procs :
        /\ pc[p] = "ensure"
        /\ number[p] = ""
        /\ slot[CurReader(p)] # NoCard
        /\ LookupNumbers(cards, slot[CurReader(p)]) = {""}
        /\ TASK_POOL = <<>>

=============================================================================
